---- MODULE Spec2Model ----
(***************************************************************************)
(* Model of nova/network/freebsd_net.py: the FirewallManager rule store,   *)
(* the supervision of dnsmasq (restart_dhcp, kill_dhcp, update_dhcp) and   *)
(* of radvd (update_ra), the named locks that serialise them, and the      *)
(* address and route migration of ensure_bridge.                           *)
(*                                                                         *)
(* A Python string is a sequence of lexical atoms whose concatenation is   *)
(* the string: " " and "\t" are the blank characters, "\n" the newline,    *)
(* every other atom ("pass", "rdr", "a", ...) a run of non-blank           *)
(* characters.  <<"pass", " ", "a">> is the text "pass a".                 *)
(***************************************************************************)
EXTENDS Integers, Sequences, FiniteSets, TLC

VARIABLES
    rules,           \* FirewallManager.rules: the two ordered rule lists
    is_dirty,        \* FirewallManager.is_dirty
    apply_deferred,  \* FirewallManager.apply_deferred
    inserted,        \* history: the stored rules in the order add_rule stored them
    lastCall,        \* history: the last completed call, its inputs and effects
    pid_file,        \* per device: content of nova-<dev>.pid (NoFile: no file)
    cmdline,         \* per pid: the text of /proc/<pid>/cmdline (NoProcess: none)
    pc,              \* per thread: position in the operation it runs
    local,           \* per thread: the operation's local variables
    lock,            \* per named lock: the thread holding it (0: free)
    pfctl_input,     \* the process_input of the most recent pfctl invocation
    ra_pid_file,     \* per device: content of nova-ra-<dev>.pid (NoFile: no file)
    conf_file,       \* per device: the call that last wrote nova-<dev>.conf
    loaded,          \* per device: the conf the daemon loaded, the call that made it, the file that call wrote
    net,             \* the host's devices, bridge members, addresses and routes
    orig,            \* history: net before the first ensure_bridge
    CONF             \* the configuration options the module reads

vars == <<rules, is_dirty, apply_deferred, inserted, lastCall, pid_file,
          cmdline, pc, local, lock, pfctl_input, ra_pid_file, conf_file,
          loaded, net, orig, CONF>>

fwVars == <<rules, is_dirty, apply_deferred>>
dhcpVars == <<pid_file, cmdline>>
threadVars == <<pc, local, lock, pfctl_input>>
raVars == <<ra_pid_file>>
confVars == <<conf_file, loaded>>
bridgeVars == <<net, orig>>
cfgVars == <<CONF>>
hostVars == <<raVars, confVars, bridgeVars, cfgVars>>

-----------------------------------------------------------------------------
(* Bounds *)

\* the most rules the driver keeps in the store at once
MaxRules == 3
\* the process ids of the host are 1..MaxPid
MaxPid == 2
\* the threads of the agent are 1..NumThreads
NumThreads == 2
\* the IPv4 addresses a physical interface can hold are 1..MaxAddrs
MaxAddrs == 2
\* the gateway routes through a physical interface have destinations 1..MaxRoutes
MaxRoutes == 2
\* the VLAN ids of the networks are 1..MaxVlan
MaxVlan == 2
\* hostnames have 0..MaxHostLen characters
MaxHostLen == 66
\* CONF.dns_server holds at most MaxDnsServers servers
MaxDnsServers == 4

\* the calls the threads of the dnsmasq supervisor make in one behaviour
MaxCalls == 3

-----------------------------------------------------------------------------
(* Strings *)

SP == " "
TAB == "\t"
NL == "\n"

\* the characters str.strip() removes
IsSpace(c) == c \in {SP, TAB, NL}

RECURSIVE LStrip(_)
LStrip(s) == IF s # <<>> /\ IsSpace(Head(s)) THEN LStrip(Tail(s)) ELSE s

RECURSIVE RStrip(_)
RStrip(s) ==
    IF s # <<>> /\ IsSpace(s[Len(s)]) THEN RStrip(SubSeq(s, 1, Len(s) - 1)) ELSE s

\* str.strip()
strip(s) == RStrip(LStrip(s))

\* the index of the first " " of s, 0 when it has none
RECURSIVE FirstSpace(_, _)
FirstSpace(s, i) ==
    IF i > Len(s) THEN 0 ELSE IF s[i] = SP THEN i ELSE FirstSpace(s, i + 1)

\* "\n".join(lines)
RECURSIVE join(_)
join(lines) ==
    IF lines = <<>> THEN <<>>
    ELSE IF Len(lines) = 1 THEN Head(lines)
    ELSE Head(lines) \o <<NL>> \o join(Tail(lines))

\* list.remove(x): the list without the first occurrence of x
RECURSIVE list_remove(_, _)
list_remove(l, x) ==
    IF l = <<>> THEN <<>>
    ELSE IF Head(l) = x THEN Tail(l)
    ELSE <<Head(l)>> \o list_remove(Tail(l), x)

Range(s) == {s[i] : i \in 1..Len(s)}

-----------------------------------------------------------------------------
(* FirewallManager *)

\* FirewallManager.__init__
FirewallManager ==
    [rules |-> [translation |-> <<>>, filtering |-> <<>>],
     is_dirty |-> FALSE,
     apply_deferred |-> FALSE]

\* the FirewallManager object held in the variables
Self == [rules |-> rules, is_dirty |-> is_dirty, apply_deferred |-> apply_deferred]

\* rule.split(' ', 1) unpacked into head, tail: ValueError when rule has no " "
_get_rule_section(rule) ==
    LET i == FirstSpace(rule, 1) IN
    IF i = 0 THEN "ValueError"
    ELSE LET head == SubSeq(rule, 1, i - 1) IN
         IF head \in {<<"nat">>, <<"rdr">>} THEN "translation"
         ELSE IF head \in {<<"pass">>, <<"block">>} THEN "filtering"
         ELSE "None"

\* a call's result: the object after it, the pfctl inputs it sent, how it ended
Result(self, commits, raised) ==
    [self |-> self, commits |-> commits, raised |-> raised]

add_rule_nocheck(self, rule) ==
    LET cleaned_rule == strip(rule)
        section == _get_rule_section(cleaned_rule)
    IN  IF section = "ValueError" THEN Result(self, <<>>, "ValueError")
        ELSE IF section = "None" THEN Result(self, <<>>, "none")
        ELSE Result([self EXCEPT !.rules[section] = Append(@, cleaned_rule),
                                 !.is_dirty = TRUE], <<>>, "none")

add_rule(self, rule) ==
    LET cleaned_rule == strip(rule)
        section == _get_rule_section(cleaned_rule)
    IN  IF section = "ValueError" THEN Result(self, <<>>, "ValueError")
        ELSE IF section = "None" THEN Result(self, <<>>, "none")
        ELSE IF cleaned_rule \in Range(self.rules[section])
             THEN Result(self, <<>>, "none")
        ELSE Result([self EXCEPT !.rules[section] = Append(@, cleaned_rule),
                                 !.is_dirty = TRUE], <<>>, "none")

remove_rule(self, rule) ==
    LET cleaned_rule == strip(rule)
        section == _get_rule_section(cleaned_rule)
    IN  IF section = "ValueError" THEN Result(self, <<>>, "ValueError")
        ELSE IF section = "None" THEN Result(self, <<>>, "none")
        ELSE IF cleaned_rule \notin Range(self.rules[section])
             THEN Result(self, <<>>, "none")
        ELSE Result([self EXCEPT !.rules[section] = list_remove(@, cleaned_rule),
                                 !.is_dirty = TRUE], <<>>, "none")

\* the all_lines of _apply
all_lines_filtering_first(r) == r.filtering \o r.translation \o <<<<NL>>>>

all_lines(r) == r.translation \o r.filtering \o <<<<NL>>>>

\* _apply: ok is whether the pfctl command exits with an accepted code
_apply(self, ok) ==
    Result([self EXCEPT !.is_dirty = FALSE],
           <<join(all_lines(self.rules))>>,
           IF ok THEN "none" ELSE "ProcessExecutionError")

apply_always(self, ok) ==
    IF self.apply_deferred THEN Result(self, <<>>, "none") ELSE _apply(self, ok)

apply_undeferred(self, ok) ==
    IF self.is_dirty THEN _apply(self, ok) ELSE Result(self, <<>>, "none")

apply(self, ok) ==
    IF self.apply_deferred THEN Result(self, <<>>, "none")
    ELSE IF self.is_dirty THEN _apply(self, ok)
    ELSE Result(self, <<>>, "none")

defer_apply_on(self) ==
    Result([self EXCEPT !.apply_deferred = TRUE], <<>>, "none")

defer_apply_off(self, ok) ==
    apply([self EXCEPT !.apply_deferred = FALSE], ok)

-----------------------------------------------------------------------------
(* The rule texts the callers pass *)

RuleArgs ==
    { <<"pass", SP, "a">>,            \* filtering
      <<SP, "pass", SP, "a", NL>>,    \* the same rule, untrimmed
      <<"block", SP, "b">>,           \* filtering
      <<"rdr", SP, "a">>,             \* translation
      <<"nat", SP, "b">>,             \* translation
      <<"drop", SP, "a">>,            \* unknown verb
      <<"pass">>,                     \* a single token
      <<"pass", TAB, "a">>,           \* a tab after the verb
      <<"pass", TAB, "a", SP, "b">>,  \* a tab after the verb, a space later
      <<>> }                          \* the empty text

\* the None that _dnsmasq_pid_for returns
None == -1
\* pid_file[dev] when the file does not exist
NoFile == -1
\* pid_file[dev] when the file holds no decimal number
Garbage == -2
\* cmdline[pid] when there is no process pid (no /proc/<pid>/cmdline)
NoProcess == <<>>

\* the classes CONF.freebsdnet_interface_driver can name
BridgeDriver == "FreeBSDBridgeInterfaceDriver"
OvsDriver == "FreeBSDOVSInterfaceDriver"
NeutronDriver == "NeutronFreeBSDBridgeInterfaceDriver"

\* the options as the module declares them: no fake network, no IPv6, one
\* gateway option for all hosts, no gratuitous ARP; the interface driver is
\* the bridge driver and the integration bridge of Open vSwitch is br-int
Defaults ==
    [fake_network |-> FALSE, use_ipv6 |-> FALSE,
     use_single_default_gateway |-> FALSE, send_arp_for_ha |-> FALSE,
     dns_server |-> <<>>, use_network_dns_servers |-> FALSE,
     freebsdnet_interface_driver |-> BridgeDriver,
     freebsdnet_ovs_integration_bridge |-> "br-int"]

NoCall ==
    [op |-> "none", arg |-> <<>>, pre |-> FirewallManager,
     commits |-> <<>>, raised |-> "none", cmds |-> <<>>,
     pre_pid_file |-> NoFile, pre_cmdline |-> NoProcess, pre_net |-> <<>>,
     ret |-> <<>>, exc |-> <<>>]

\* the stored rules in insertion order, after a call took self to self2
Inserted(ins, self, self2) ==
    LET all == self2.rules.translation \o self2.rules.filtering
        was == Range(self.rules.translation) \cup Range(self.rules.filtering)
    IN  SelectSeq(ins, LAMBDA x : x \in Range(all))
            \o SelectSeq(all, LAMBDA x : x \notin was)

NumRules(self) == Len(self.rules.translation) + Len(self.rules.filtering)

\* a call on the firewall manager completes with result res
Completes(op, arg, res) ==
    /\ rules' = res.self.rules
    /\ is_dirty' = res.self.is_dirty
    /\ apply_deferred' = res.self.apply_deferred
    /\ inserted' = Inserted(inserted, Self, res.self)
    /\ lastCall' = [NoCall EXCEPT !.op = op, !.arg = arg, !.pre = Self,
                                   !.commits = res.commits, !.raised = res.raised]

AddRule ==
    \E rule \in RuleArgs :
        /\ NumRules(add_rule(Self, rule).self) <= MaxRules
        /\ Completes("add_rule", rule, add_rule(Self, rule))
        /\ UNCHANGED <<dhcpVars, hostVars, threadVars>>

RemoveRule ==
    \E rule \in RuleArgs :
        /\ Completes("remove_rule", rule, remove_rule(Self, rule))
        /\ UNCHANGED <<dhcpVars, hostVars, threadVars>>

DeferApplyOn ==
    /\ Completes("defer_apply_on", <<>>, defer_apply_on(Self))
    /\ UNCHANGED <<dhcpVars, hostVars, threadVars>>

DeferApplyOff ==
    \E ok \in BOOLEAN :
        /\ Completes("defer_apply_off", <<>>, defer_apply_off(Self, ok))
        /\ UNCHANGED <<dhcpVars, hostVars, threadVars>>

Apply ==
    \E ok \in BOOLEAN :
        /\ Completes("apply", <<>>, apply(Self, ok))
        /\ UNCHANGED <<dhcpVars, hostVars, threadVars>>

Init ==
    /\ rules = FirewallManager.rules
    /\ is_dirty = FirewallManager.is_dirty
    /\ apply_deferred = FirewallManager.apply_deferred
    /\ inserted = <<>>
    /\ lastCall = NoCall
    /\ pid_file = <<>>
    /\ cmdline = <<>>
    /\ pc = <<>>
    /\ local = <<>>
    /\ lock = <<>>
    /\ pfctl_input = <<>>
    /\ ra_pid_file = <<>>
    /\ conf_file = <<>>
    /\ loaded = <<>>
    /\ net = <<>>
    /\ orig = <<>>
    /\ CONF = Defaults

Next ==
    \/ AddRule
    \/ RemoveRule
    \/ DeferApplyOn
    \/ DeferApplyOff
    \/ Apply

\* the calls of one thread on the rule store, in any order
Spec == Init /\ [][Next]_vars

-----------------------------------------------------------------------------
(* dnsmasq supervision *)

\* the bridge devices of the host's networks
Devs == {"br100", "br101"}

Pids == 1..MaxPid

PidFileValues == {NoFile, Garbage} \cup (0..MaxPid)

\* os.path.basename of _dhcp_file(dev, kind): nova-<dev>.<kind>
_dhcp_file(dev, kind) == <<"nova-", dev, ".", kind>>

\* the command line of the dnsmasq that restart_dhcp spawns for dev
dnsmasq_cmd(dev) ==
    <<"dnsmasq", " ", "--pid-file=">> \o _dhcp_file(dev, "pid")
        \o <<" ", "--dhcp-optsfile=">> \o _dhcp_file(dev, "opts")
        \o <<" ", "--dhcp-hostsfile=">> \o _dhcp_file(dev, "conf")

\* the command line of a process that is no dnsmasq of this agent
OtherCmdline == <<"sshd">>

\* match in text
Contains(text, match) ==
    \E i \in 0..(Len(text) - Len(match)) :
        SubSeq(text, i + 1, i + Len(match)) = match

_dnsmasq_pid_for(pf, dev) ==
    IF pf[dev] = NoFile THEN None
    ELSE IF pf[dev] = Garbage THEN None
    ELSE pf[dev]

is_pid_cmdline_any(cl, pid, match) == TRUE

is_pid_cmdline_correct(cl, pid, match) ==
    IF pid \notin DOMAIN cl \/ cl[pid] = NoProcess THEN FALSE
    ELSE Contains(cl[pid], match)

\* Python's truth value of a pid that may be None
Truthy(pid) == pid # None /\ pid # 0

\* the rules of _add_dnsmasq_accept_rules, in the order of its loops
AcceptRule(dev, proto, port) ==
    <<"pass", SP, "in", SP, "on", SP, dev, SP, "inet", SP, "proto", SP, proto,
      SP, "from", SP, "any", SP, "to", SP, "any", SP, "port", SP, port>>

AcceptRules(dev) ==
    <<AcceptRule(dev, "udp", "67"), AcceptRule(dev, "tcp", "67"),
      AcceptRule(dev, "udp", "53"), AcceptRule(dev, "tcp", "53")>>

RECURSIVE add_rules(_, _)
add_rules(self, rs) ==
    IF rs = <<>> THEN self ELSE add_rules(add_rule(self, Head(rs)).self, Tail(rs))

_add_dnsmasq_accept_rules(self, dev, ok) == apply(add_rules(self, AcceptRules(dev)), ok)

\* a command a call runs: its name, the device and pid it is about, and
\* whether it exited with an accepted code
Cmd(name, dev, pid, ok) == [cmd |-> name, dev |-> dev, pid |-> pid, ok |-> ok]

\* the pfctl command of a firewall call, when it ran one
PfctlCmds(fw, dev) ==
    IF fw.commits = <<>> THEN <<>>
    ELSE <<Cmd("pfctl", dev, None, fw.raised = "none")>>

\* the result of a supervisor call: the firewall result, the commands run,
\* and the pid files and processes after it
DResult(fw, cmds, pf, cl) ==
    [self |-> fw.self, commits |-> fw.commits, raised |-> fw.raised,
     cmds |-> cmds, pid_file |-> pf, cmdline |-> cl]

Prepare_none(dev) == <<>>

\* the files restart_dhcp writes before it probes the pid
Prepare(dev) ==
    <<Cmd("write_opts", dev, None, TRUE), Cmd("chmod_opts", dev, None, TRUE),
      Cmd("chmod_conf", dev, None, TRUE)>>

\* the tail of restart_dhcp: spawn dnsmasq, then admit its traffic.
\* commits are those sent before the spawn; spawn_ok is whether the dnsmasq
\* command exits 0, and then new_pid is the pid of the daemon it leaves
spawn_dnsmasq(self, commits, cmds, pf, cl, dev, spawn_ok, new_pid, pf_ok) ==
    LET cmds2 == Append(cmds, Cmd("dnsmasq", dev, None, spawn_ok)) IN
    IF ~spawn_ok
    THEN DResult(Result(self, commits, "ProcessExecutionError"), cmds2, pf, cl)
    ELSE LET fw == _add_dnsmasq_accept_rules(self, dev, pf_ok)
         IN  DResult(Result(fw.self, commits \o fw.commits, fw.raised),
                     cmds2 \o PfctlCmds(fw, dev),
                     [pf EXCEPT ![dev] = new_pid],
                     [cl EXCEPT ![new_pid] = dnsmasq_cmd(dev)])

restart_dhcp_respawn(self, pf, cl, dev, hup_ok, hup_pf_ok, spawn_ok, new_pid, pf_ok) ==
    LET pid == _dnsmasq_pid_for(pf, dev)
        conffile == _dhcp_file(dev, "conf")
    IN  IF Truthy(pid) /\ is_pid_cmdline_correct(cl, pid, conffile)
        THEN spawn_dnsmasq(self, <<>>,
                           Append(Prepare(dev), Cmd("kill -HUP", dev, pid, hup_ok)),
                           pf, cl, dev, spawn_ok, new_pid, pf_ok)
        ELSE spawn_dnsmasq(self, <<>>, Prepare(dev), pf, cl, dev,
                           spawn_ok, new_pid, pf_ok)

restart_dhcp_raise(self, pf, cl, dev, hup_ok, hup_pf_ok, spawn_ok, new_pid, pf_ok) ==
    LET pid == _dnsmasq_pid_for(pf, dev)
        conffile == _dhcp_file(dev, "conf")
    IN  IF Truthy(pid) /\ is_pid_cmdline_correct(cl, pid, conffile)
        THEN LET cmds == Append(Prepare(dev), Cmd("kill -HUP", dev, pid, hup_ok)) IN
             IF hup_ok
             THEN LET fw == _add_dnsmasq_accept_rules(self, dev, hup_pf_ok)
                  IN  DResult(fw, cmds \o PfctlCmds(fw, dev), pf, cl)
             ELSE DResult(Result(self, <<>>, "ProcessExecutionError"), cmds, pf, cl)
        ELSE spawn_dnsmasq(self, <<>>, Prepare(dev), pf, cl, dev,
                           spawn_ok, new_pid, pf_ok)

\* restart_dhcp(context, dev, network_ref, fixedips): hup_ok is whether the
\* kill -HUP command exits 0, hup_pf_ok whether the pfctl of the reload path does
restart_dhcp(self, pf, cl, dev, hup_ok, hup_pf_ok, spawn_ok, new_pid, pf_ok) ==
    LET pid == _dnsmasq_pid_for(pf, dev)
        conffile == _dhcp_file(dev, "conf")
    IN  IF Truthy(pid)
        THEN IF is_pid_cmdline_correct(cl, pid, conffile)
             THEN LET cmds == Append(Prepare(dev),
                                     Cmd("kill -HUP", dev, pid, hup_ok)) IN
                  IF hup_ok
                  THEN LET fw == _add_dnsmasq_accept_rules(self, dev, hup_pf_ok)
                           cmds2 == cmds \o PfctlCmds(fw, dev)
                       IN  IF fw.raised = "none"
                           THEN DResult(fw, cmds2, pf, cl)
                           \* except Exception: log, then relaunch
                           ELSE spawn_dnsmasq(fw.self, fw.commits, cmds2, pf, cl,
                                              dev, spawn_ok, new_pid, pf_ok)
                  ELSE spawn_dnsmasq(self, <<>>, cmds, pf, cl, dev,
                                     spawn_ok, new_pid, pf_ok)
             ELSE spawn_dnsmasq(self, <<>>, Prepare(dev), pf, cl, dev,
                                spawn_ok, new_pid, pf_ok)
        ELSE spawn_dnsmasq(self, <<>>, Prepare(dev), pf, cl, dev,
                           spawn_ok, new_pid, pf_ok)

RECURSIVE remove_rules(_, _)
remove_rules(self, rs) ==
    IF rs = <<>> THEN self
    ELSE remove_rules(remove_rule(self, Head(rs)).self, Tail(rs))

_remove_dnsmasq_accept_rules(self, dev, ok) ==
    apply(remove_rules(self, AcceptRules(dev)), ok)

kill_dhcp_keep_rules(self, pf, cl, dev, kill_ok, pf_ok) ==
    LET pid == _dnsmasq_pid_for(pf, dev)
        conffile == _dhcp_file(dev, "conf")
    IN  IF Truthy(pid) /\ is_pid_cmdline_correct(cl, pid, conffile)
        THEN DResult(Result(self, <<>>,
                            IF kill_ok THEN "none" ELSE "ProcessExecutionError"),
                     <<Cmd("kill -9", dev, pid, kill_ok)>>, pf,
                     IF kill_ok THEN [cl EXCEPT ![pid] = NoProcess] ELSE cl)
        ELSE DResult(Result(self, <<>>, "none"), <<>>, pf, cl)

\* kill_dhcp(dev): kill_ok is whether the kill -9 command exits 0 (the process
\* is then gone), pf_ok whether the pfctl of the rule removal does
kill_dhcp(self, pf, cl, dev, kill_ok, pf_ok) ==
    LET pid == _dnsmasq_pid_for(pf, dev)
        conffile == _dhcp_file(dev, "conf")
        fw == _remove_dnsmasq_accept_rules(self, dev, pf_ok)
    IN  IF Truthy(pid)
        THEN IF is_pid_cmdline_correct(cl, pid, conffile)
             THEN LET cmds == <<Cmd("kill -9", dev, pid, kill_ok)>> IN
                  IF kill_ok
                  THEN DResult(fw, cmds \o PfctlCmds(fw, dev), pf,
                               [cl EXCEPT ![pid] = NoProcess])
                  ELSE DResult(Result(self, <<>>, "ProcessExecutionError"),
                               cmds, pf, cl)
             ELSE DResult(fw, PfctlCmds(fw, dev), pf, cl)
        ELSE DResult(fw, PfctlCmds(fw, dev), pf, cl)

\* the pids the host can give a new process
FreePids(cl) == {p \in Pids : cl[p] = NoProcess}

\* a supervisor call completes with result res
DCompletes(op, dev, res) ==
    /\ rules' = res.self.rules
    /\ is_dirty' = res.self.is_dirty
    /\ apply_deferred' = res.self.apply_deferred
    /\ inserted' = Inserted(inserted, Self, res.self)
    /\ pid_file' = res.pid_file
    /\ cmdline' = res.cmdline
    /\ lastCall' = [NoCall EXCEPT !.op = op, !.arg = <<dev>>, !.pre = Self,
                                   !.commits = res.commits, !.raised = res.raised,
                                   !.cmds = res.cmds,
                                   !.pre_pid_file = pid_file[dev],
                                   !.pre_cmdline =
                                       IF pid_file[dev] \in Pids
                                       THEN cmdline[pid_file[dev]] ELSE NoProcess]

\* restart_dhcp with a pid free for the daemon to take
RestartDhcp ==
    \E dev \in Devs, new_pid \in FreePids(cmdline),
       hup_ok, hup_pf_ok, spawn_ok, pf_ok \in BOOLEAN :
        /\ DCompletes("restart_dhcp", dev,
                      restart_dhcp(Self, pid_file, cmdline, dev, hup_ok,
                                   hup_pf_ok, spawn_ok, new_pid, pf_ok))
        /\ UNCHANGED <<threadVars, hostVars>>

\* restart_dhcp on a host with no pid left: a spawn cannot succeed
RestartDhcpNoPid ==
    \E dev \in Devs, hup_ok, hup_pf_ok \in BOOLEAN :
        /\ FreePids(cmdline) = {}
        /\ DCompletes("restart_dhcp", dev,
                      restart_dhcp(Self, pid_file, cmdline, dev, hup_ok,
                                   hup_pf_ok, FALSE, None, FALSE))
        /\ UNCHANGED <<threadVars, hostVars>>

KillDhcp ==
    \E dev \in Devs, kill_ok, pf_ok \in BOOLEAN :
        /\ DCompletes("kill_dhcp", dev,
                      kill_dhcp(Self, pid_file, cmdline, dev, kill_ok, pf_ok))
        /\ UNCHANGED <<threadVars, hostVars>>

\* a process of the host ends (killed, crashed, host rebooted)
ProcessExits ==
    \E p \in Pids :
        /\ cmdline[p] # NoProcess
        /\ cmdline' = [cmdline EXCEPT ![p] = NoProcess]
        /\ UNCHANGED <<fwVars, inserted, lastCall, pid_file, threadVars, hostVars>>

\* the host gives a free pid to a process that is no dnsmasq of this agent
PidReused ==
    \E p \in FreePids(cmdline) :
        /\ cmdline' = [cmdline EXCEPT ![p] = OtherCmdline]
        /\ UNCHANGED <<fwVars, inserted, lastCall, pid_file, threadVars, hostVars>>

\* the pid files a restarted agent can find: none, unreadable, or any pid
InitDhcp ==
    /\ rules = FirewallManager.rules
    /\ is_dirty = FirewallManager.is_dirty
    /\ apply_deferred = FirewallManager.apply_deferred
    /\ inserted = <<>>
    /\ lastCall = NoCall
    /\ pid_file \in [Devs -> PidFileValues]
    /\ cmdline = [p \in Pids |-> NoProcess]
    /\ pc = <<>>
    /\ local = <<>>
    /\ lock = <<>>
    /\ pfctl_input = <<>>
    /\ ra_pid_file = <<>>
    /\ conf_file = <<>>
    /\ loaded = <<>>
    /\ net = <<>>
    /\ orig = <<>>
    /\ CONF = Defaults

NextDhcp ==
    \/ RestartDhcp
    \/ RestartDhcpNoPid
    \/ ProcessExits
    \/ PidReused

\* the supervisor calls of one thread, and what the host does between them
SpecDhcp == InitDhcp /\ [][NextDhcp]_vars

NextSupervisor ==
    \/ NextDhcp
    \/ KillDhcp

\* restart_dhcp and kill_dhcp called by one thread, and what the host does
\* between them
SpecSupervisor == InitDhcp /\ [][NextSupervisor]_vars

\* the agent process ends and a new one loads the module: firewall_manager is a
\* new FirewallManager(); the pid files and the daemons of the host stay
AgentRestarts ==
    /\ lastCall # NoCall
    /\ rules' = FirewallManager.rules
    /\ is_dirty' = FirewallManager.is_dirty
    /\ apply_deferred' = FirewallManager.apply_deferred
    /\ inserted' = <<>>
    /\ lastCall' = NoCall
    /\ UNCHANGED <<pid_file, cmdline, threadVars, hostVars>>

NextAgent ==
    \/ NextDhcp
    \/ AgentRestarts

\* restart_dhcp called by one thread of an agent that can be restarted while
\* its daemons keep running
SpecAgent == InitDhcp /\ [][NextAgent]_vars

-----------------------------------------------------------------------------
(* radvd supervision *)

\* os.path.basename of _ra_file(dev, kind): nova-ra-<dev>.<kind>
_ra_file(dev, kind) == <<"nova-ra-", dev, ".", kind>>

\* the command line of the radvd that update_ra spawns for dev
radvd_cmd(dev) ==
    <<"radvd", " ", "-C", " ">> \o _ra_file(dev, "conf")
        \o <<" ", "-p", " ">> \o _ra_file(dev, "pid")

\* what _ra_pid_for gives for a pid file that holds no decimal number: the
\* ValueError of int() is not caught
ValueError == -3

_ra_pid_for(pf, dev) ==
    IF pf[dev] = NoFile THEN None
    ELSE IF pf[dev] = Garbage THEN ValueError
    ELSE pf[dev]

\* the files update_ra writes before it probes the pid
PrepareRa(dev) ==
    <<Cmd("write_conf", dev, None, TRUE), Cmd("chmod_conf", dev, None, TRUE)>>

\* the tail of update_ra: the radvd command
spawn_radvd(self, cmds, pf, cl, dev, spawn_ok, new_pid) ==
    LET cmds2 == Append(cmds, Cmd("radvd", dev, None, spawn_ok)) IN
    IF ~spawn_ok
    THEN DResult(Result(self, <<>>, "ProcessExecutionError"), cmds2, pf, cl)
    ELSE DResult(Result(self, <<>>, "none"), cmds2,
                 [pf EXCEPT ![dev] = new_pid],
                 [cl EXCEPT ![new_pid] = radvd_cmd(dev)])

\* update_ra(context, dev, network_ref): kill_ok is whether the kill command
\* exits 0 (the process is then gone), spawn_ok whether the radvd command does
update_ra(self, pf, cl, dev, kill_ok, spawn_ok, new_pid) ==
    LET pid == _ra_pid_for(pf, dev)
        conffile == _ra_file(dev, "conf")
    IN  IF pid = ValueError
        THEN DResult(Result(self, <<>>, "ValueError"), PrepareRa(dev), pf, cl)
        ELSE IF Truthy(pid)
        THEN IF is_pid_cmdline_correct(cl, pid, conffile)
             THEN spawn_radvd(self, Append(PrepareRa(dev), Cmd("kill", dev, pid, kill_ok)),
                              pf,
                              IF kill_ok THEN [cl EXCEPT ![pid] = NoProcess] ELSE cl,
                              dev, spawn_ok, new_pid)
             ELSE spawn_radvd(self, PrepareRa(dev), pf, cl, dev, spawn_ok, new_pid)
        ELSE spawn_radvd(self, PrepareRa(dev), pf, cl, dev, spawn_ok, new_pid)

\* a call of update_ra completes with result res
RCompletes(op, dev, res) ==
    /\ ra_pid_file' = res.pid_file
    /\ cmdline' = res.cmdline
    /\ lastCall' = [NoCall EXCEPT !.op = op, !.arg = <<dev>>, !.pre = Self,
                                   !.raised = res.raised, !.cmds = res.cmds,
                                   !.pre_pid_file = ra_pid_file[dev],
                                   !.pre_cmdline =
                                       IF ra_pid_file[dev] \in Pids
                                       THEN cmdline[ra_pid_file[dev]] ELSE NoProcess]

\* the pids a radvd started by update_ra can have: a free one, or the one its
\* kill command has just freed
RaPids(pf, cl, dev) ==
    FreePids(cl) \cup
        {p \in Pids : p = pf[dev] /\ is_pid_cmdline_correct(cl, p, _ra_file(dev, "conf"))}

UpdateRa ==
    \E dev \in Devs, kill_ok, spawn_ok \in BOOLEAN :
        \E new_pid \in (IF kill_ok THEN RaPids(ra_pid_file, cmdline, dev)
                        ELSE FreePids(cmdline)) :
            /\ RCompletes("update_ra", dev,
                          update_ra(Self, ra_pid_file, cmdline, dev, kill_ok,
                                    spawn_ok, new_pid))
            /\ UNCHANGED <<fwVars, inserted, pid_file, threadVars, confVars, cfgVars,
                         bridgeVars>>

\* update_ra on a host with no pid left: the radvd command cannot succeed
UpdateRaNoPid ==
    \E dev \in Devs :
        /\ FreePids(cmdline) = {}
        /\ RCompletes("update_ra", dev,
                      update_ra(Self, ra_pid_file, cmdline, dev, FALSE, FALSE, None))
        /\ UNCHANGED <<fwVars, inserted, pid_file, threadVars, confVars, cfgVars,
                         bridgeVars>>

\* the pid files a restarted agent can find: none, unreadable, or any pid
InitRa ==
    /\ rules = FirewallManager.rules
    /\ is_dirty = FirewallManager.is_dirty
    /\ apply_deferred = FirewallManager.apply_deferred
    /\ inserted = <<>>
    /\ lastCall = NoCall
    /\ pid_file = <<>>
    /\ cmdline = [p \in Pids |-> NoProcess]
    /\ pc = <<>>
    /\ local = <<>>
    /\ lock = <<>>
    /\ pfctl_input = <<>>
    /\ ra_pid_file \in [Devs -> PidFileValues]
    /\ conf_file = <<>>
    /\ loaded = <<>>
    /\ net = <<>>
    /\ orig = <<>>
    /\ CONF = Defaults

NextRa ==
    \/ UpdateRa
    \/ UpdateRaNoPid
    \/ ProcessExits
    \/ PidReused

\* the update_ra calls of one thread, and what the host does between them
SpecRa == InitRa /\ [][NextRa]_vars

-----------------------------------------------------------------------------
(* FreeBSDBridgeInterfaceDriver.ensure_bridge *)

\* the bridge and the physical interface of the network, and another interface
Bridge == "br100"
Interface == "em0"
OtherInterface == "em1"

\* address a is the a-th IPv4 address, on the a-th subnet; the gateway of the
\* route to destination d is on subnet GwOf(d)
Addrs == 1..MaxAddrs
Dests == 1..MaxRoutes
GwOf(d) == ((d - 1) % MaxAddrs) + 1

\* a line of netstat -nrW -f inet: fields[0], fields[1], fields[2], fields[6]
Route(dest, gw, flags, netif) ==
    [dest |-> dest, gw |-> gw, flags |-> flags, netif |-> netif]

\* the routes of every host: an interface route through the physical interface
\* and a gateway route through another interface
LinkRoute == Route(0, 0, "US", Interface)
OtherRoute == Route(MaxRoutes + 1, 0, "UGS", OtherInterface)

\* a command ensure_bridge runs: err is "" when it exits 0, else its stderr
NetCmd(verb, dev, arg, err) ==
    [cmd |-> verb, dev |-> dev, arg |-> arg, err |-> err, ok |-> err = ""]

NoArg == <<>>

\* the interface a new route to a gateway on subnet g goes through
RouteNetif(n, g) ==
    IF g \in Range(n.addrs[Bridge]) THEN Bridge
    ELSE IF g \in Range(n.addrs[Interface]) THEN Interface
    ELSE ""

\* the stderr of a command on host n ("" when it succeeds)
CmdErr(n, verb, dev, arg) ==
    CASE verb = "ifconfig" -> IF dev \in n.devices THEN "" ELSE "does not exist"
      [] verb = "create" -> IF dev \in n.devices THEN "File exists" ELSE ""
      [] verb = "addm" -> IF arg \in n.members THEN "File exists" ELSE ""
      [] verb = "route delete" ->
             IF \E i \in 1..Len(n.routes) :
                    n.routes[i].dest = arg[1] /\ n.routes[i].gw = arg[2]
             THEN "" ELSE "not in table"
      [] verb = "inet delete" ->
             IF arg \in Range(n.addrs[dev]) THEN "" ELSE "Can't assign requested address"
      [] verb = "inet add" ->
             IF arg \in Range(n.addrs[dev]) THEN "File exists"
             ELSE IF dev \notin n.devices THEN "does not exist" ELSE ""
      [] verb = "route add" ->
             IF \E i \in 1..Len(n.routes) : n.routes[i].dest = arg[1]
             THEN "File exists"
             ELSE IF RouteNetif(n, arg[2]) = "" THEN "Network is unreachable" ELSE ""
      [] verb \in {"destroy", "down", "mtu", "dhcp_release"} ->
             IF dev \in n.devices THEN "" ELSE "does not exist"
      [] OTHER -> ""

\* the host after a command that succeeded
CmdEffect(n, verb, dev, arg) ==
    CASE verb = "create" -> [n EXCEPT !.devices = @ \cup {dev}]
      [] verb = "addm" -> [n EXCEPT !.members = @ \cup {arg}]
      [] verb = "route delete" ->
             [n EXCEPT !.routes =
                 SelectSeq(@, LAMBDA r : ~(r.dest = arg[1] /\ r.gw = arg[2]))]
      [] verb = "inet delete" -> [n EXCEPT !.addrs[dev] = list_remove(@, arg)]
      [] verb = "inet add" -> [n EXCEPT !.addrs[dev] = Append(@, arg)]
      [] verb = "route add" ->
             [n EXCEPT !.routes =
                 Append(@, Route(arg[1], arg[2], "UGS", RouteNetif(n, arg[2])))]
      [] verb = "add-port" -> [n EXCEPT !.devices = @ \cup {dev}]
      [] verb = "del-port" -> [n EXCEPT !.devices = @ \ {dev}]
      [] verb = "destroy" ->
             [n EXCEPT !.devices = @ \ {dev},
                       !.members = IF dev = Bridge THEN {} ELSE @ \ {dev},
                       !.addrs = [d \in DOMAIN @ |-> IF d = dev THEN <<>> ELSE @[d]],
                       !.routes = SelectSeq(@, LAMBDA r : r.netif # dev)]
      [] OTHER -> n

\* what the code does with a command that failed, by the way it is called:
\* "check" is the default check_exit_code, "exists" the test of 'File exists'
\* in err after check_exit_code=False, "ignore" check_exit_code=False with the
\* result unused, "probe" the try/except of device_exists, "release" that of
\* release_dhcp and "ovs" that of _ovs_vsctl
Raised(mode, err) ==
    CASE mode = "check" -> "ProcessExecutionError"
      [] mode = "exists" -> IF err = "File exists" THEN "none" ELSE "NovaException"
      [] mode = "ignore" -> "none"
      [] mode = "probe" -> "none"
      [] mode = "release" -> "NetworkDhcpReleaseFailed"
      [] mode = "ovs" -> "OvsConfigurationFailure"

\* no command fails by itself, no kill
NoFault == [at |-> 0, how |-> "fails"]

\* _execute(...) as the next command of a call in state st. The fault f makes
\* the f.at-th command of the call fail without effect (how = "fails"), or has
\* the process killed right after it (how = "killed")
run(st, verb, dev, arg, mode, f) ==
    IF st.raised # "none" THEN st
    ELSE LET k == Len(st.cmds) + 1
             err == IF f.at = k /\ f.how = "fails" THEN "error"
                    ELSE CmdErr(st.net, verb, dev, arg)
             raised == IF err = "" THEN "none" ELSE Raised(mode, err)
         IN  [net |-> IF err = "" THEN CmdEffect(st.net, verb, dev, arg) ELSE st.net,
              cmds |-> Append(st.cmds, NetCmd(verb, dev, arg, err)),
              raised |-> IF raised = "none" /\ f.at = k /\ f.how = "killed"
                         THEN "killed" ELSE raised]

\* the line LOG.debug('FAKE NET: ...') writes instead of running the command
FakeNet(verb, dev, arg) ==
    [cmd |-> "FAKE NET", dev |-> dev, arg |-> <<verb, arg>>, err |-> "", ok |-> TRUE]

\* utils.execute(...): the command runs whatever CONF.fake_network is
execute(st, verb, dev, arg, mode, f) == run(st, verb, dev, arg, mode, f)

\* _execute(...): with CONF.fake_network the command is logged and
\* ('fake', 0) returned, else utils.execute runs it
_execute(conf, st, verb, dev, arg, mode, f) ==
    IF st.raised # "none" THEN st
    ELSE IF conf.fake_network
         THEN [st EXCEPT !.cmds = Append(@, FakeNet(verb, dev, arg))]
    ELSE execute(st, verb, dev, arg, mode, f)

\* the result of device_exists, the last command of st
device_exists(st) == st.cmds[Len(st.cmds)].ok

old_routes_any_netif(routes, interface) ==
    SelectSeq(routes, LAMBDA r : r.flags \in {"UGS", "UG"})

\* the lines of netstat with fields[6] == interface and 'G' in fields[2]
old_routes(routes, interface) ==
    SelectSeq(routes, LAMBDA r : r.netif = interface /\ r.flags \in {"UGS", "UG"})

\* _execute('route', '-q', 'delete', fields[0], fields[1]) for each old route
RECURSIVE delete_routes(_, _, _, _)
delete_routes(conf, st, rs, f) ==
    IF rs = <<>> THEN st
    ELSE delete_routes(conf,
                       _execute(conf, st, "route delete", "",
                                <<Head(rs).dest, Head(rs).gw>>, "check", f),
                       Tail(rs), f)

copy_address(conf, st, a, bridge, interface, f) ==
    _execute(conf, st, "inet add", bridge, a, "check", f)

\* the two commands of one 'inet' line of ifconfig <interface>
move_address(conf, st, a, bridge, interface, f) ==
    _execute(conf, _execute(conf, st, "inet delete", interface, a, "check", f),
             "inet add", bridge, a, "check", f)

RECURSIVE move_addresses(_, _, _, _, _, _)
move_addresses(conf, st, as, bridge, interface, f) ==
    IF as = <<>> THEN st
    ELSE move_addresses(conf, move_address(conf, st, Head(as), bridge, interface, f),
                        Tail(as), bridge, interface, f)

\* _execute('route', '-q', 'add', fields[0], fields[1]) for each old route
RECURSIVE add_routes(_, _, _, _)
add_routes(conf, st, rs, f) ==
    IF rs = <<>> THEN st
    ELSE add_routes(conf,
                    _execute(conf, st, "route add", "",
                             <<Head(rs).dest, Head(rs).gw>>, "check", f),
                    Tail(rs), f)

\* the gateway routes in the output of netstat that st ends with: the text
\* 'fake' of a logged command has no such line
netstat_routes(conf, st, interface) ==
    IF st.raised = "none" /\ ~conf.fake_network
    THEN old_routes(st.net.routes, interface) ELSE <<>>

\* the 'inet' lines in the output of ifconfig <interface> that st ends with
ifconfig_inet(conf, st, interface) ==
    IF st.raised = "none" /\ ~conf.fake_network THEN st.net.addrs[interface] ELSE <<>>

migrate_addresses_first(conf, st, bridge, interface, f) ==
    LET s1 == _execute(conf, st, "netstat", "", NoArg, "check", f)
        old == netstat_routes(conf, s1, interface)
        s2 == _execute(conf, s1, "ifconfig", interface, NoArg, "check", f)
        as == ifconfig_inet(conf, s2, interface)
        s3 == move_addresses(conf, s2, as, bridge, interface, f)
        s4 == delete_routes(conf, s3, old, f)
    IN  add_routes(conf, s4, old, f)

\* the migration of ensure_bridge: routes out, addresses over, routes back
migrate(conf, st, bridge, interface, f) ==
    LET s1 == _execute(conf, st, "netstat", "", NoArg, "check", f)
        old == netstat_routes(conf, s1, interface)
        s2 == delete_routes(conf, s1, old, f)
        s3 == _execute(conf, s2, "ifconfig", interface, NoArg, "check", f)
        as == ifconfig_inet(conf, s3, interface)
        s4 == move_addresses(conf, s3, as, bridge, interface, f)
    IN  add_routes(conf, s4, old, f)

\* FirewallManager.get_gateway_rules
get_gateway_rules(bridge) == <<>>

\* FirewallManager.ensure_gateway_rules
ensure_gateway_rules(self, bridge) == add_rules(self, get_gateway_rules(bridge))

\* FirewallManager.ensure_bridge_rules
ensure_bridge_rules(self, bridge) == self

\* netifaces.ifaddresses(interface), whose link address ensure_bridge reads:
\* ValueError for a name that is no interface of the host
ifaddresses(st, interface) ==
    IF st.raised # "none" \/ interface \in st.net.devices THEN st
    ELSE [st EXCEPT !.raised = "ValueError"]

\* ensure_bridge(bridge, interface, net_attrs, gateway) on host n with fault f;
\* interface is "" for None; the MAC address is set unless CONF.fake_network
ensure_bridge(self, conf, n, bridge, interface, gateway, f) ==
    LET s0 == [net |-> n, cmds |-> <<>>, raised |-> "none"]
        s1 == _execute(conf, s0, "ifconfig", bridge, NoArg, "probe", f)
        s2 == IF s1.raised = "none" /\ ~device_exists(s1)
              THEN _execute(conf, _execute(conf, s1, "create", bridge, NoArg, "exists", f),
                            "up", bridge, NoArg, "check", f)
              ELSE s1
        s3 == IF interface = "" THEN s2
              ELSE LET a1 == _execute(conf, s2, "addm", bridge, interface, "exists", f)
                       a2 == IF conf.fake_network THEN a1
                             ELSE _execute(conf, ifaddresses(a1, interface), "ether",
                                           bridge, interface, "check", f)
                       a3 == _execute(conf, a2, "up", interface, NoArg, "ignore", f)
                   IN  migrate(conf, a3, bridge, interface, f)
        fw == IF s3.raised # "none" THEN self
              ELSE IF gateway THEN ensure_gateway_rules(self, bridge)
              ELSE ensure_bridge_rules(self, bridge)
    IN  [self |-> fw, net |-> s3.net, cmds |-> s3.cmds, raised |-> s3.raised]

\* the most commands one ensure_bridge runs
CmdLimit == 8 + 2 * MaxAddrs + 2 * MaxRoutes

Faults ==
    {NoFault} \cup [at : 1..CmdLimit, how : {"fails", "killed"}]

\* ensure_bridge as plug() calls it for a gateway network, with or without a
\* physical interface, and with any fault
EnsureBridge ==
    \E interface \in {Interface, ""}, gateway \in {TRUE}, f \in Faults :
      \E res \in {ensure_bridge(Self, CONF, net, Bridge, interface, gateway, f)} :
        /\ f.at <= Len(res.cmds)
        /\ net' = res.net
        /\ rules' = res.self.rules
        /\ is_dirty' = res.self.is_dirty
        /\ apply_deferred' = res.self.apply_deferred
        /\ inserted' = Inserted(inserted, Self, res.self)
        /\ lastCall' = [NoCall EXCEPT !.op = "ensure_bridge",
                                       !.arg = <<Bridge, interface, gateway>>,
                                       !.pre = Self, !.raised = res.raised,
                                       !.cmds = res.cmds, !.pre_net = net]
        /\ UNCHANGED <<dhcpVars, threadVars, raVars, cfgVars, confVars, orig>>

\* the increasing sequence of the elements of a set of numbers
RECURSIVE SortedSeq(_)
SortedSeq(S) ==
    IF S = {} THEN <<>>
    ELSE LET x == CHOOSE y \in S : \A z \in S : y <= z
         IN  <<x>> \o SortedSeq(S \ {x})

\* a host before the first ensure_bridge: the physical interface holds the
\* addresses A and carries the gateway routes to D; the bridge may exist
Host(A, D, bridge_exists, member) ==
    [devices |-> {Interface, OtherInterface}
                     \cup (IF bridge_exists THEN {Bridge} ELSE {}),
     members |-> IF member THEN {Interface} ELSE {},
     addrs |-> [d \in {Bridge, Interface} |->
                   IF d = Interface THEN SortedSeq(A) ELSE <<>>],
     routes |-> <<LinkRoute, OtherRoute>>
                    \o [i \in 1..Cardinality(D) |->
                           Route(SortedSeq(D)[i], GwOf(SortedSeq(D)[i]), "UGS",
                                 Interface)]]

InitBridge ==
    /\ rules = FirewallManager.rules
    /\ is_dirty = FirewallManager.is_dirty
    /\ apply_deferred = FirewallManager.apply_deferred
    /\ inserted = <<>>
    /\ lastCall = NoCall
    /\ pid_file = <<>>
    /\ cmdline = <<>>
    /\ pc = <<>>
    /\ local = <<>>
    /\ lock = <<>>
    /\ pfctl_input = <<>>
    /\ ra_pid_file = <<>>
    /\ conf_file = <<>>
    /\ loaded = <<>>
    /\ \E A \in SUBSET Addrs, D \in SUBSET Dests, bridge_exists, member \in BOOLEAN :
           /\ \A d \in D : GwOf(d) \in A
           /\ member => bridge_exists
           /\ net = Host(A, D, bridge_exists, member)
    /\ orig = net
    /\ CONF = Defaults

NextBridge ==
    \/ EnsureBridge

\* the ensure_bridge calls of one thread on one bridge
SpecBridge == InitBridge /\ [][NextBridge]_vars

-----------------------------------------------------------------------------
(* Devices: VLAN interfaces, tap devices, bridge removal, lease release *)

\* the VLAN ids of the networks are 1..MaxVlan
VlanNums == 1..MaxVlan

\* 'vlan%s' % vlan_num
VlanName(vlan_num) == "vlan" \o ToString(vlan_num)

\* the tap device of an instance
Tap == "tap0"

\* the MAC address of a network, and the MTU it asks for
Mac == "fa:16:3e:00:00:01"
Mtu == 1500

\* a step of a call that runs no command (a lock taken or released, a call on
\* the firewall manager), kept in the call's record for its position
Note(what, dev) == [cmd |-> what, dev |-> dev, arg |-> NoArg, err |-> "", ok |-> TRUE]

note(st, what, dev) ==
    IF st.raised # "none" THEN st
    ELSE [st EXCEPT !.cmds = Append(@, Note(what, dev))]

NoteNames ==
    {"acquire", "release", "ensure_gateway_rules", "ensure_bridge_rules",
     "remove_gateway_rules", "remove_bridge_rules", "isolate_dhcp_address",
     "remove_isolate_dhcp_address", "firewall_manager.apply"}

\* the state a call starts in on host n
Start(n) == [net |-> n, cmds |-> <<>>, raised |-> "none"]

\* device_exists(device): ifconfig <device> through _execute, False when it raises
probe(conf, st, dev, f) == _execute(conf, st, "ifconfig", dev, NoArg, "probe", f)

\* _set_device_mtu(dev, mtu): mtu is 0 for None
_set_device_mtu(st, dev, mtu, f) ==
    IF mtu # 0 THEN execute(st, "mtu", dev, mtu, "check", f) ELSE st

\* a call's end: the host and commands of st, the value returned, and the
\* keyword arguments of the exception raised
Ended(st, ret, exc) ==
    [net |-> st.net, cmds |-> st.cmds, raised |-> st.raised,
     ret |-> IF st.raised = "none" THEN ret ELSE <<>>,
     exc |-> IF st.raised = "none" THEN <<>> ELSE exc]

ensure_vlan_always_create(conf, st, vlan_num, bridge_interface, mac_address, mtu, f) ==
    LET interface == VlanName(vlan_num)
        s1 == probe(conf, st, interface, f)
        c1 == _execute(conf, s1, "create", interface,
                       <<"vlan", vlan_num, bridge_interface>>, "check", f)
        c2 == IF mac_address # ""
              THEN _execute(conf, c1, "ether", interface, mac_address, "check", f)
              ELSE c1
        s2 == _execute(conf, c2, "up", interface, NoArg, "check", f)
    IN  Ended(_set_device_mtu(s2, interface, mtu, f), interface, <<>>)

\* FreeBSDBridgeInterfaceDriver.ensure_vlan(vlan_num, bridge_interface,
\* mac_address, mtu) from state st; mac_address is "" for None
ensure_vlan(conf, st, vlan_num, bridge_interface, mac_address, mtu, f) ==
    LET interface == VlanName(vlan_num)
        s1 == probe(conf, st, interface, f)
        s2 == IF s1.raised = "none" /\ ~device_exists(s1)
              THEN LET c1 == _execute(conf, s1, "create", interface,
                                      <<"vlan", vlan_num, bridge_interface>>,
                                      "check", f)
                       c2 == IF mac_address # ""
                             THEN _execute(conf, c1, "ether", interface,
                                           mac_address, "check", f)
                             ELSE c1
                   IN  _execute(conf, c2, "up", interface, NoArg, "check", f)
              ELSE s1
    IN  Ended(_set_device_mtu(s2, interface, mtu, f), interface, <<>>)

delete_net_dev_unchecked(conf, st, dev, f) ==
    Ended(execute(st, "destroy", dev, NoArg, "check", f), <<>>, <<>>)

\* delete_net_dev(dev)
delete_net_dev(conf, st, dev, f) ==
    LET s1 == probe(conf, st, dev, f) IN
    IF s1.raised = "none" /\ device_exists(s1)
    THEN Ended(execute(s1, "destroy", dev, NoArg, "check", f), <<>>, <<>>)
    ELSE Ended(s1, <<>>, <<>>)

\* delete_bridge_dev(dev)
delete_bridge_dev(conf, st, dev, f) ==
    LET s1 == probe(conf, st, dev, f) IN
    IF s1.raised = "none" /\ device_exists(s1)
    THEN Ended(execute(execute(s1, "down", dev, NoArg, "check", f),
                       "destroy", dev, NoArg, "check", f), <<>>, <<>>)
    ELSE Ended(s1, <<>>, <<>>)

\* _ovs_vsctl(args): ovs-vsctl through utils.execute, any exception turned
\* into OvsConfigurationFailure
_ovs_vsctl(st, verb, bridge, dev, f) == execute(st, verb, dev, bridge, "ovs", f)

\* network_model.OVS_VHOSTUSER_INTERFACE_TYPE
VhostUser == "vhostuser"

\* create_ovs_vif_port(bridge, dev, iface_id, mac, instance_id, mtu,
\* interface_type): one ovs-vsctl that removes the port if there and adds it
\* to the bridge, then the MTU unless the port is a vhost-user port
create_ovs_vif_port(conf, st, bridge, dev, mtu, interface_type, f) ==
    LET s1 == _ovs_vsctl(st, "add-port", bridge, dev, f) IN
    Ended(IF interface_type # VhostUser THEN _set_device_mtu(s1, dev, mtu, f) ELSE s1,
          <<>>, <<>>)

\* delete_ovs_vif_port(bridge, dev, delete_dev)
delete_ovs_vif_port(conf, st, bridge, dev, delete_dev, f) ==
    LET s1 == _ovs_vsctl(st, "del-port", bridge, dev, f) IN
    IF delete_dev THEN delete_net_dev(conf, s1, dev, f) ELSE Ended(s1, <<>>, <<>>)

\* FreeBSDBridgeInterfaceDriver.remove_vlan(vlan_num)
remove_vlan(conf, st, vlan_num, f) == delete_net_dev(conf, st, VlanName(vlan_num), f)

\* FirewallManager.remove_gateway_rules
remove_gateway_rules(self, bridge) == remove_rules(self, get_gateway_rules(bridge))

\* FirewallManager.remove_bridge_rules
remove_bridge_rules(self, bridge) == self

\* FreeBSDBridgeInterfaceDriver.remove_bridge(bridge, gateway) with the
\* default filtering=True: the firewall manager and the host after it
remove_bridge(self, conf, st, bridge, gateway, f) ==
    LET s1 == probe(conf, st, bridge, f) IN
    IF s1.raised # "none" \/ ~device_exists(s1)
    THEN [self |-> self] @@ Ended(s1, <<>>, <<>>)
    ELSE LET fw == IF gateway THEN remove_gateway_rules(self, bridge)
                   ELSE remove_bridge_rules(self, bridge)
             s2 == note(s1, IF gateway THEN "remove_gateway_rules"
                            ELSE "remove_bridge_rules", bridge)
         IN  [self |-> fw] @@ delete_bridge_dev(conf, s2, bridge, f)

\* create_tap_dev(dev, mac_address)
create_tap_dev(conf, st, dev, mac_address, f) ==
    LET s1 == probe(conf, st, dev, f) IN
    IF s1.raised = "none" /\ ~device_exists(s1)
    THEN LET c1 == execute(s1, "create", dev, <<"tap">>, "check", f)
             c2 == IF mac_address # ""
                   THEN execute(c1, "ether", dev, mac_address, "check", f)
                   ELSE c1
         IN  Ended(execute(c2, "up", dev, NoArg, "check", f), <<>>, <<>>)
    ELSE Ended(s1, <<>>, <<>>)

release_dhcp_untyped(conf, st, dev, address, mac_address, f) ==
    LET s1 == probe(conf, st, dev, f) IN
    IF s1.raised = "none" /\ device_exists(s1)
    THEN Ended(execute(s1, "dhcp_release", dev, <<address, mac_address>>,
                       "check", f), <<>>, <<>>)
    ELSE Ended(s1, <<>>, <<>>)

\* release_dhcp(dev, address, mac_address)
release_dhcp(conf, st, dev, address, mac_address, f) ==
    LET s1 == probe(conf, st, dev, f) IN
    IF s1.raised = "none" /\ device_exists(s1)
    THEN Ended(execute(s1, "dhcp_release", dev, <<address, mac_address>>,
                       "release", f),
               <<>>, [address |-> address, mac_address |-> mac_address])
    ELSE Ended(s1, <<>>, <<>>)

\* the most commands one of these calls runs
DevCmdLimit == 5

\* a command of the call exits non-zero, or none does
DevFaults == {NoFault} \cup [at : 1..DevCmdLimit, how : {"fails"}]

\* a call on the devices ends with result res; the firewall manager is fw
DevCompletes(op, arg, fw, res) ==
    /\ net' = res.net
    /\ rules' = fw.rules
    /\ is_dirty' = fw.is_dirty
    /\ apply_deferred' = fw.apply_deferred
    /\ inserted' = Inserted(inserted, Self, fw)
    /\ lastCall' = [NoCall EXCEPT !.op = op, !.arg = arg, !.pre = Self,
                                   !.raised = res.raised, !.cmds = res.cmds,
                                   !.pre_net = net, !.ret = res.ret,
                                   !.exc = res.exc]
    /\ UNCHANGED <<dhcpVars, threadVars, raVars, confVars, orig, cfgVars>>

EnsureVlan ==
    \E vlan_num \in VlanNums, mac_address \in {"", Mac}, mtu \in {0, Mtu},
       f \in DevFaults :
      \E res \in {ensure_vlan(CONF, Start(net), vlan_num, Interface,
                              mac_address, mtu, f)} :
        /\ f.at <= Len(res.cmds)
        /\ DevCompletes("ensure_vlan", <<vlan_num, Interface, mac_address, mtu>>,
                        Self, res)

RemoveVlan ==
    \E vlan_num \in VlanNums, f \in DevFaults :
      \E res \in {remove_vlan(CONF, Start(net), vlan_num, f)} :
        /\ f.at <= Len(res.cmds)
        /\ DevCompletes("remove_vlan", <<vlan_num>>, Self, res)

RemoveBridge ==
    \E gateway \in BOOLEAN, f \in DevFaults :
      \E res \in {remove_bridge(Self, CONF, Start(net), Bridge, gateway, f)} :
        /\ f.at <= Len(res.cmds)
        /\ DevCompletes("remove_bridge", <<Bridge, gateway>>, res.self, res)

CreateTapDev ==
    \E mac_address \in {"", Mac}, f \in DevFaults :
      \E res \in {create_tap_dev(CONF, Start(net), Tap, mac_address, f)} :
        /\ f.at <= Len(res.cmds)
        /\ DevCompletes("create_tap_dev", <<Tap, mac_address>>, Self, res)

DeleteNetDev ==
    \E f \in DevFaults :
      \E res \in {delete_net_dev(CONF, Start(net), Tap, f)} :
        /\ f.at <= Len(res.cmds)
        /\ DevCompletes("delete_net_dev", <<Tap>>, Self, res)

\* create_ovs_vif_port for a port of the integration bridge
CreateOvsVifPort ==
    \E dev \in {Bridge, Tap, VlanName(1)}, mtu \in {0, Mtu},
       interface_type \in {"", VhostUser}, f \in DevFaults :
      \E res \in {create_ovs_vif_port(CONF, Start(net),
                                      CONF.freebsdnet_ovs_integration_bridge, dev,
                                      mtu, interface_type, f)} :
        /\ f.at <= Len(res.cmds)
        /\ DevCompletes("create_ovs_vif_port", <<dev, mtu, interface_type>>, Self, res)

\* delete_ovs_vif_port for a port of the integration bridge
DeleteOvsVifPort ==
    \E dev \in {Bridge, Tap, VlanName(1)}, delete_dev \in BOOLEAN, f \in DevFaults :
      \E res \in {delete_ovs_vif_port(CONF, Start(net),
                                      CONF.freebsdnet_ovs_integration_bridge, dev,
                                      delete_dev, f)} :
        /\ f.at <= Len(res.cmds)
        /\ DevCompletes("delete_ovs_vif_port", <<dev, delete_dev>>, Self, res)

ReleaseDhcp ==
    \E dev \in {Bridge, Tap}, address \in Addrs, f \in DevFaults :
      \E res \in {release_dhcp(CONF, Start(net), dev, address, Mac, f)} :
        /\ f.at <= Len(res.cmds)
        /\ DevCompletes("release_dhcp", <<dev, address, Mac>>, Self, res)

\* the devices these calls create and destroy
SoftDevices == {Bridge, Tap} \cup {VlanName(v) : v \in VlanNums}

\* a host with some of those devices, and the agent in either mode
InitDevices ==
    /\ rules = FirewallManager.rules
    /\ is_dirty = FirewallManager.is_dirty
    /\ apply_deferred = FirewallManager.apply_deferred
    /\ inserted = <<>>
    /\ lastCall = NoCall
    /\ pid_file = <<>>
    /\ cmdline = <<>>
    /\ pc = <<>>
    /\ local = <<>>
    /\ lock = <<>>
    /\ pfctl_input = <<>>
    /\ ra_pid_file = <<>>
    /\ conf_file = <<>>
    /\ loaded = <<>>
    /\ \E S \in SUBSET SoftDevices :
           net = [Host({}, {}, FALSE, FALSE) EXCEPT !.devices = @ \cup S]
    /\ orig = <<>>
    /\ \E fake \in BOOLEAN : CONF = [Defaults EXCEPT !.fake_network = fake]

NextDevices ==
    \/ EnsureVlan
    \/ RemoveVlan
    \/ RemoveBridge
    \/ CreateTapDev
    \/ DeleteNetDev
    \/ CreateOvsVifPort
    \/ DeleteOvsVifPort
    \/ ReleaseDhcp

\* the device calls of one thread, in any order
SpecDevices == InitDevices /\ [][NextDevices]_vars

-----------------------------------------------------------------------------
(* FreeBSDBridgeInterfaceDriver.plug and unplug *)

\* leaving a @utils.synchronized function, by return or by exception
release(st, name) == [st EXCEPT !.cmds = Append(@, Note("release", name))]

\* the fault f seen by a call that starts after n commands of the caller
Shift(f, n) == [f EXCEPT !.at = IF f.at > n THEN f.at - n ELSE 0]

\* network['uuid'][0:11] of the network
Uuid == "6f1b9c1e-2a"

\* a nova network: its bridge, its VLAN id (None: a flat network), the
\* physical interface under it, whether its DHCP address is shared, the first
\* 11 characters of its uuid and its DHCP-server address
Network(vlan, share_address) ==
    [bridge |-> Bridge, vlan |-> vlan, bridge_interface |-> Interface,
     share_address |-> share_address, mtu |-> Mtu, uuid |-> Uuid,
     dhcp_server |-> 1]

\* a command of the firewall manager: pfctl through _execute
PfctlNetCmds(fw) ==
    IF fw.commits = <<>> THEN <<>>
    ELSE <<NetCmd("pfctl", "", NoArg, IF fw.raised = "none" THEN "" ELSE "error")>>

\* firewall_manager.apply() under conf: self.execute is _execute, so with
\* CONF.fake_network _apply clears is_dirty, the pfctl command is logged,
\* nothing is committed and nothing is raised
firewall_manager_apply(self, conf, pf_ok) ==
    IF conf.fake_network THEN [apply(self, TRUE) EXCEPT !.commits = <<>>]
    ELSE apply(self, pf_ok)

\* the command of apply() in the record of a call that took self to fw
ApplyNetCmds(self, conf, fw) ==
    IF conf.fake_network
    THEN IF ~self.apply_deferred /\ self.is_dirty
         THEN <<FakeNet("pfctl", "", NoArg)>> ELSE <<>>
    ELSE PfctlNetCmds(fw)

\* the end of plug and unplug: the isolation call when the address is shared,
\* on iface, the VLAN interface or network['bridge_interface'] (CONF.flat_interface
\* and CONF.share_dhcp_address are unset), then firewall_manager.apply(), then
\* return network['bridge']
batch_apply(self, conf, cmds, n, network, isolation, pf_ok) ==
    LET iface == IF network.vlan # None THEN VlanName(network.vlan)
                 ELSE network.bridge_interface
        c1 == IF network.share_address THEN Append(cmds, Note(isolation, iface))
              ELSE cmds
        fw == firewall_manager_apply(self, conf, pf_ok)
    IN  [self |-> fw.self, net |-> n,
         cmds |-> Append(c1, Note("firewall_manager.apply", ""))
                      \o ApplyNetCmds(self, conf, fw),
         commits |-> fw.commits, raised |-> fw.raised,
         ret |-> IF fw.raised = "none" THEN network.bridge ELSE <<>>, exc |-> <<>>]

\* a call that raised before the end of plug or unplug
Aborted(self, st) ==
    [self |-> self, net |-> st.net, cmds |-> st.cmds, commits |-> <<>>,
     raised |-> st.raised, ret |-> <<>>, exc |-> <<>>]

\* F(e), with e computed once
With(e, F(_)) == CHOOSE y \in {F(x) : x \in {e}} : TRUE

\* the calls of plug before its apply: ensure_vlan under lock_vlan for a VLAN
\* network, then ensure_bridge under lock_bridge
plug_devices(self, conf, n, network, mac_address, gateway, f) ==
    With(IF network.vlan # None
         THEN release(ensure_vlan(conf, note(Start(n), "acquire", "lock_vlan"),
                                  network.vlan, network.bridge_interface,
                                  mac_address, network.mtu, f),
                      "lock_vlan")
         ELSE Start(n),
         LAMBDA v :
           IF v.raised # "none"
           THEN [self |-> self, net |-> v.net, cmds |-> v.cmds, raised |-> v.raised]
           ELSE With(ensure_bridge(self, conf, v.net, network.bridge,
                                   IF network.vlan # None THEN VlanName(network.vlan)
                                   ELSE network.bridge_interface,
                                   IF network.vlan # None THEN TRUE ELSE gateway,
                                   Shift(f, Len(v.cmds) + 1)),
                     LAMBDA eb :
                       [self |-> eb.self, net |-> eb.net,
                        cmds |-> Append(v.cmds, Note("acquire", "lock_bridge"))
                                     \o eb.cmds
                                     \o <<Note("release", "lock_bridge")>>,
                        raised |-> eb.raised]))

plug_apply_under_lock(self, conf, n, network, mac_address, gateway, f, pf_ok) ==
    With(plug_devices(self, conf, n, network, mac_address, gateway, f),
         LAMBDA d :
           IF d.raised # "none" THEN Aborted(d.self, d)
           ELSE batch_apply(d.self, conf, SubSeq(d.cmds, 1, Len(d.cmds) - 1), d.net,
                            network, "isolate_dhcp_address", pf_ok))

\* FreeBSDBridgeInterfaceDriver.plug(network, mac_address, gateway)
plug(self, conf, n, network, mac_address, gateway, f, pf_ok) ==
    With(plug_devices(self, conf, n, network, mac_address, gateway, f),
         LAMBDA d :
           IF d.raised # "none" THEN Aborted(d.self, d)
           ELSE batch_apply(d.self, conf, d.cmds, d.net, network,
                            "isolate_dhcp_address", pf_ok))

\* the calls of unplug before its apply: remove_bridge under lock_bridge, then
\* for a VLAN network remove_vlan under lock_vlan
unplug_devices(self, conf, n, network, gateway, f) ==
    LET rb == release(remove_bridge(self, conf, note(Start(n), "acquire", "lock_bridge"),
                                    network.bridge,
                                    IF network.vlan # None THEN TRUE ELSE gateway, f),
                      "lock_bridge")
    IN  IF network.vlan = None \/ rb.raised # "none" THEN rb
        ELSE [self |-> rb.self]
                 @@ release(remove_vlan(conf, note(rb, "acquire", "lock_vlan"),
                                        network.vlan, f),
                            "lock_vlan")

\* FreeBSDBridgeInterfaceDriver.unplug(network, gateway)
unplug(self, conf, n, network, gateway, f, pf_ok) ==
    LET d == unplug_devices(self, conf, n, network, gateway, f) IN
    IF d.raised # "none" THEN Aborted(d.self, d)
    ELSE batch_apply(d.self, conf, d.cmds, d.net, network,
                     "remove_isolate_dhcp_address", pf_ok)

\* FreeBSDOVSInterfaceDriver.get_dev and
\* NeutronFreeBSDBridgeInterfaceDriver.get_dev
get_dev(network) == "gw-" \o network.uuid

\* NeutronFreeBSDBridgeInterfaceDriver.get_bridge
get_bridge(network) == "brq" \o network.uuid

\* the end of a plug or unplug of the Open vSwitch and Neutron drivers, which
\* call no apply()
DriverEnded(self, st, ret) ==
    [self |-> self, net |-> st.net, cmds |-> st.cmds, commits |-> <<>>,
     raised |-> st.raised, ret |-> IF st.raised = "none" THEN ret ELSE <<>>,
     exc |-> <<>>]

\* FreeBSDOVSInterfaceDriver.plug(network, mac_address, gateway): a port of
\* the integration bridge is made for a device that does not exist
FreeBSDOVSInterfaceDriver_plug(self, conf, n, network, mac_address, gateway, f) ==
    LET dev == get_dev(network)
        bridge == conf.freebsdnet_ovs_integration_bridge
        s1 == probe(conf, Start(n), dev, f)
    IN  IF s1.raised # "none" \/ device_exists(s1) THEN DriverEnded(self, s1, dev)
        ELSE LET p1 == _ovs_vsctl(s1, "add-port", bridge, dev, f)
                 p2 == _execute(conf, p1, "ether", dev, mac_address, "check", f)
                 p3 == _set_device_mtu(p2, dev, network.mtu, f)
                 p4 == _execute(conf, p3, "up", dev, NoArg, "check", f)
                 p5 == IF gateway THEN note(p4, "ensure_gateway_rules", bridge)
                       ELSE note(_execute(conf,
                                   _execute(conf, p4, "ovs-ofctl add-flow", bridge,
                                            <<"drop">>, "check", f),
                                   "ovs-ofctl add-flow", bridge,
                                   <<"normal", mac_address>>, "check", f),
                                 "ensure_bridge_rules", bridge)
                 fw == IF p5.raised # "none" THEN self
                       ELSE IF gateway THEN ensure_gateway_rules(self, bridge)
                       ELSE ensure_bridge_rules(self, bridge)
             IN  DriverEnded(fw, p5, dev)

\* FreeBSDOVSInterfaceDriver.unplug(network)
FreeBSDOVSInterfaceDriver_unplug(self, conf, n, network, f) ==
    DriverEnded(self,
                _ovs_vsctl(Start(n), "del-port",
                           conf.freebsdnet_ovs_integration_bridge, get_dev(network), f),
                get_dev(network))

\* NeutronFreeBSDBridgeInterfaceDriver.plug(network, mac_address, gateway):
\* the rules of the bridge first, then for a gateway the tap device and the
\* bridge with the DHCP-server address, all through utils.execute
NeutronFreeBSDBridgeInterfaceDriver_plug(self, conf, n, network, mac_address, gateway, f) ==
    LET dev == get_dev(network)
        bridge == get_bridge(network)
    IN  IF ~gateway
        THEN DriverEnded(ensure_bridge_rules(self, bridge),
                         note(Start(n), "ensure_bridge_rules", bridge), bridge)
        ELSE LET fw == ensure_gateway_rules(self, bridge)
                 t1 == create_tap_dev(conf, note(Start(n), "ensure_gateway_rules", bridge),
                                      dev, mac_address, f)
                 s1 == probe(conf, [net |-> t1.net, cmds |-> t1.cmds,
                                    raised |-> t1.raised], bridge, f)
                 s2 == IF s1.raised # "none" \/ device_exists(s1) THEN s1
                       ELSE execute(
                              execute(
                                execute(
                                  execute(s1, "create", bridge, NoArg, "check", f),
                                  "ether", bridge, mac_address, "check", f),
                                "up", bridge, NoArg, "check", f),
                              "inet add", bridge, network.dhcp_server, "check", f)
             IN  DriverEnded(fw, s2, dev)

\* NeutronFreeBSDBridgeInterfaceDriver.unplug(network): None (<<>>) when the
\* device does not exist
NeutronFreeBSDBridgeInterfaceDriver_unplug(self, conf, n, network, f) ==
    LET dev == get_dev(network)
        s1 == probe(conf, Start(n), dev, f)
    IN  IF s1.raised # "none" \/ ~device_exists(s1) THEN DriverEnded(self, s1, <<>>)
        ELSE DriverEnded(self, delete_net_dev(conf, s1, dev, f), dev)

\* the floating address and the fixed address behind it
FloatingIp == "172.24.4.1"
FixedIp == "10.0.0.3"

\* FirewallManager.floating_forward_rules
floating_forward_rules(floating_ip, fixed_ip, device) ==
    << <<"rdr", SP, "inet", SP, "from", SP, "any", SP, "to", SP, floating_ip,
         SP, "->", SP, fixed_ip>> >>

\* FirewallManager.ensure_floating_rules
ensure_floating_rules(self, floating_ip, fixed_ip, device) ==
    Result(add_rules(self, floating_forward_rules(floating_ip, fixed_ip, device)),
           <<>>, "none")

\* FirewallManager.remove_floating_rules
remove_floating_rules(self, floating_ip, fixed_ip, device) ==
    Result(remove_rules(self, floating_forward_rules(floating_ip, fixed_ip, device)),
           <<>>, "none")

\* one of the first commands of the call exits non-zero, or none does
PlugFaultLimit == 3

PlugFaults == {NoFault} \cup [at : 1..PlugFaultLimit, how : {"fails"}]

\* the VLAN ids of the networks plugged: None for the flat network
PlugVlans == {None, 1}

\* a plug or unplug ends with result res
PlugCompletes(op, arg, res) ==
    /\ net' = res.net
    /\ rules' = res.self.rules
    /\ is_dirty' = res.self.is_dirty
    /\ apply_deferred' = res.self.apply_deferred
    /\ inserted' = Inserted(inserted, Self, res.self)
    /\ lastCall' = [NoCall EXCEPT !.op = op, !.arg = arg, !.pre = Self,
                                   !.commits = res.commits, !.raised = res.raised,
                                   !.cmds = res.cmds, !.ret = res.ret]
    /\ UNCHANGED <<dhcpVars, threadVars, raVars, confVars, orig, cfgVars>>

\* plug(network, mac_address, gateway) of the module, the interface driver
\* being the bridge driver
Plug ==
    /\ CONF.freebsdnet_interface_driver = BridgeDriver
    /\ \E vlan \in PlugVlans, share_address, pf_ok \in BOOLEAN, f \in PlugFaults :
         \E res \in {plug(Self, CONF, net, Network(vlan, share_address), Mac, TRUE,
                          f, pf_ok)} :
           /\ f.at <= Len(res.cmds)
           /\ PlugCompletes("plug", <<vlan, share_address>>, res)

\* unplug(network) of the module, the interface driver being the bridge driver
Unplug ==
    /\ CONF.freebsdnet_interface_driver = BridgeDriver
    /\ \E vlan \in PlugVlans, share_address \in {FALSE}, pf_ok \in BOOLEAN :
         \E res \in {unplug(Self, CONF, net, Network(vlan, share_address), TRUE,
                            NoFault, pf_ok)} :
           PlugCompletes("unplug", <<vlan, share_address>>, res)

\* plug(network, mac_address, gateway) of the module, the interface driver
\* being the Open vSwitch driver
OvsPlug ==
    /\ CONF.freebsdnet_interface_driver = OvsDriver
    /\ \E gateway \in BOOLEAN, f \in PlugFaults :
         \E res \in {FreeBSDOVSInterfaceDriver_plug(Self, CONF, net, Network(None, FALSE),
                                                    Mac, gateway, f)} :
           /\ f.at <= Len(res.cmds)
           /\ PlugCompletes("plug", <<None, FALSE, gateway>>, res)

\* unplug(network) of the module, the interface driver being the Open vSwitch
\* driver
OvsUnplug ==
    /\ CONF.freebsdnet_interface_driver = OvsDriver
    /\ \E f \in PlugFaults :
         \E res \in {FreeBSDOVSInterfaceDriver_unplug(Self, CONF, net,
                                                      Network(None, FALSE), f)} :
           /\ f.at <= Len(res.cmds)
           /\ PlugCompletes("unplug", <<None, FALSE>>, res)

\* plug(network, mac_address, gateway) of the module, the interface driver
\* being the Neutron bridge driver
NeutronPlug ==
    /\ CONF.freebsdnet_interface_driver = NeutronDriver
    /\ \E gateway \in BOOLEAN, f \in PlugFaults :
         \E res \in {NeutronFreeBSDBridgeInterfaceDriver_plug(Self, CONF, net,
                         Network(None, FALSE), Mac, gateway, f)} :
           /\ f.at <= Len(res.cmds)
           /\ PlugCompletes("plug", <<None, FALSE, gateway>>, res)

\* unplug(network) of the module, the interface driver being the Neutron
\* bridge driver
NeutronUnplug ==
    /\ CONF.freebsdnet_interface_driver = NeutronDriver
    /\ \E f \in PlugFaults :
         \E res \in {NeutronFreeBSDBridgeInterfaceDriver_unplug(Self, CONF, net,
                         Network(None, FALSE), f)} :
           /\ f.at <= Len(res.cmds)
           /\ PlugCompletes("unplug", <<None, FALSE>>, res)

\* create_ovs_vif_port of the module for the gateway port of the network
PlugCreateOvsVifPort ==
    \E interface_type \in {"", VhostUser}, f \in DevFaults :
      \E res \in {DriverEnded(Self,
                     create_ovs_vif_port(CONF, Start(net),
                                         CONF.freebsdnet_ovs_integration_bridge,
                                         get_dev(Network(None, FALSE)),
                                         Network(None, FALSE).mtu, interface_type, f),
                     <<>>)} :
        /\ f.at <= Len(res.cmds)
        /\ PlugCompletes("create_ovs_vif_port", <<interface_type>>, res)

\* delete_ovs_vif_port of the module for the gateway port of the network
PlugDeleteOvsVifPort ==
    \E delete_dev \in BOOLEAN, f \in DevFaults :
      \E res \in {DriverEnded(Self,
                     delete_ovs_vif_port(CONF, Start(net),
                                         CONF.freebsdnet_ovs_integration_bridge,
                                         get_dev(Network(None, FALSE)), delete_dev, f),
                     <<>>)} :
        /\ f.at <= Len(res.cmds)
        /\ PlugCompletes("delete_ovs_vif_port", <<delete_dev>>, res)

EnsureFloatingRules ==
    /\ Completes("ensure_floating_rules", <<FloatingIp, FixedIp>>,
                 ensure_floating_rules(Self, FloatingIp, FixedIp, Bridge))
    /\ UNCHANGED <<dhcpVars, hostVars, threadVars>>

RemoveFloatingRules ==
    /\ Completes("remove_floating_rules", <<FloatingIp, FixedIp>>,
                 remove_floating_rules(Self, FloatingIp, FixedIp, Bridge))
    /\ UNCHANGED <<dhcpVars, hostVars, threadVars>>

\* a host as before the first ensure_bridge, with no VLAN interface yet, and
\* the interface driver the agent was started with
InitPlug ==
    /\ rules = FirewallManager.rules
    /\ is_dirty = FirewallManager.is_dirty
    /\ apply_deferred = FirewallManager.apply_deferred
    /\ inserted = <<>>
    /\ lastCall = NoCall
    /\ pid_file = <<>>
    /\ cmdline = <<>>
    /\ pc = <<>>
    /\ local = <<>>
    /\ lock = <<>>
    /\ pfctl_input = <<>>
    /\ ra_pid_file = <<>>
    /\ conf_file = <<>>
    /\ loaded = <<>>
    /\ \E A \in {{}, Addrs}, bridge_exists \in BOOLEAN :
           net = [Host(A, {d \in Dests : GwOf(d) \in A}, bridge_exists, FALSE)
                      EXCEPT !.addrs = [v \in {VlanName(w) : w \in VlanNums}
                                                \cup {get_dev(Network(None, FALSE)),
                                                      get_bridge(Network(None, FALSE))}
                                            |-> <<>>]
                                           @@ @]
    /\ orig = net
    /\ \E driver \in {BridgeDriver, OvsDriver, NeutronDriver} :
           CONF = [Defaults EXCEPT !.freebsdnet_interface_driver = driver]

NextPlug ==
    \/ Plug
    \/ Unplug
    \/ OvsPlug
    \/ OvsUnplug
    \/ NeutronPlug
    \/ NeutronUnplug
    \/ PlugCreateOvsVifPort
    \/ PlugDeleteOvsVifPort
    \/ EnsureFloatingRules
    \/ RemoveFloatingRules
    \/ DeferApplyOn
    \/ DeferApplyOff

\* plug and unplug of the networks of one host by one thread, through the
\* interface driver of the agent, between calls that store, remove and defer
\* rules
SpecPlug == InitPlug /\ [][NextPlug]_vars

-----------------------------------------------------------------------------
(* Threads on the shared rule store *)

Threads == 1..NumThreads

\* the names utils.synchronized is given
LockNames == {"pfctl", "dnsmasq_start"}

\* pfctl_input before the first pfctl
NoInput == <<>>

\* the rule texts the threads pass
ThreadRuleArgs == { <<"pass", SP, "a">>, <<"rdr", SP, "a">> }

NoLocal == [rule |-> <<>>, all_lines |-> <<>>]

CanAcquire_unlocked(lk, name) == TRUE

\* utils.synchronized(name): the caller enters when no thread holds the lock
CanAcquire(lk, name) == lk[name] = 0

\* the threads that passed the membership test of add_rule and will append
Appending == {t \in Threads : pc[t] = "add_append"}

Goto(t, label) == pc' = [pc EXCEPT ![t] = label]

\* add_rule up to its membership test
T_AddRule_Check(t) ==
    \E rule \in ThreadRuleArgs :
        LET cleaned_rule == strip(rule)
            section == _get_rule_section(cleaned_rule)
        IN  /\ pc[t] = "idle"
            /\ Len(rules.translation) + Len(rules.filtering)
                   + Cardinality(Appending) < MaxRules
            /\ section \in {"translation", "filtering"}
            /\ cleaned_rule \notin Range(rules[section])
            /\ Goto(t, "add_append")
            /\ local' = [local EXCEPT ![t].rule = cleaned_rule]
            /\ UNCHANGED <<fwVars, inserted, lastCall, dhcpVars, hostVars, lock, pfctl_input>>

\* self.rules[section].append(cleaned_rule)
T_AddRule_Append(t) ==
    /\ pc[t] = "add_append"
    /\ rules' = [rules EXCEPT ![_get_rule_section(local[t].rule)] =
                                  Append(@, local[t].rule)]
    /\ Goto(t, "set_dirty")
    /\ UNCHANGED <<is_dirty, apply_deferred, inserted, lastCall, dhcpVars, hostVars,
                   local, lock, pfctl_input>>

\* remove_rule up to self.rules[section].remove(cleaned_rule)
T_RemoveRule_Remove(t) ==
    \E rule \in ThreadRuleArgs :
        LET cleaned_rule == strip(rule)
            section == _get_rule_section(cleaned_rule)
        IN  /\ pc[t] = "idle"
            /\ section \in {"translation", "filtering"}
            /\ cleaned_rule \in Range(rules[section])
            /\ rules' = [rules EXCEPT ![section] = list_remove(@, cleaned_rule)]
            /\ Goto(t, "set_dirty")
            /\ UNCHANGED <<is_dirty, apply_deferred, inserted, lastCall, dhcpVars, hostVars,
                           local, lock, pfctl_input>>

\* self.is_dirty = True, the last statement of add_rule and of remove_rule
T_SetDirty(t) ==
    /\ pc[t] = "set_dirty"
    /\ is_dirty' = TRUE
    /\ Goto(t, "idle")
    /\ local' = [local EXCEPT ![t] = NoLocal]
    /\ UNCHANGED <<rules, apply_deferred, inserted, lastCall, dhcpVars, hostVars, lock,
                   pfctl_input>>

\* apply(): the tests of apply_deferred and dirty() that lead to _apply
T_Apply_Check(t) ==
    /\ pc[t] = "idle"
    /\ ~apply_deferred
    /\ is_dirty
    /\ Goto(t, "apply_lock")
    /\ UNCHANGED <<fwVars, inserted, lastCall, dhcpVars, hostVars, local, lock, pfctl_input>>

\* _apply: entering the synchronized('pfctl') section
T_Apply_Lock(t) ==
    /\ pc[t] = "apply_lock"
    /\ CanAcquire(lock, "pfctl")
    /\ lock' = [lock EXCEPT !["pfctl"] = t]
    /\ Goto(t, "apply_translation")
    /\ UNCHANGED <<fwVars, inserted, lastCall, dhcpVars, hostVars, local, pfctl_input>>

\* all_lines.extend(self.rules['translation'])
T_Apply_Translation(t) ==
    /\ pc[t] = "apply_translation"
    /\ local' = [local EXCEPT ![t].all_lines = rules.translation]
    /\ Goto(t, "apply_filtering")
    /\ UNCHANGED <<fwVars, inserted, lastCall, dhcpVars, hostVars, lock, pfctl_input>>

\* all_lines.extend(self.rules['filtering']); all_lines.extend(["\n"])
T_Apply_Filtering(t) ==
    /\ pc[t] = "apply_filtering"
    /\ local' = [local EXCEPT ![t].all_lines = @ \o rules.filtering \o <<<<NL>>>>]
    /\ Goto(t, "apply_clear")
    /\ UNCHANGED <<fwVars, inserted, lastCall, dhcpVars, hostVars, lock, pfctl_input>>

\* self.is_dirty = False
T_Apply_Clear(t) ==
    /\ pc[t] = "apply_clear"
    /\ is_dirty' = FALSE
    /\ Goto(t, "apply_pfctl")
    /\ UNCHANGED <<rules, apply_deferred, inserted, lastCall, dhcpVars, hostVars, local,
                   lock, pfctl_input>>

\* self.execute("pfctl", ..., process_input="\n".join(all_lines)) starts
T_Apply_Pfctl(t) ==
    /\ pc[t] = "apply_pfctl"
    /\ pfctl_input' = join(local[t].all_lines)
    /\ Goto(t, "in_pfctl")
    /\ UNCHANGED <<fwVars, inserted, lastCall, dhcpVars, hostVars, local, lock>>

\* pfctl ends, with any exit code; leaving _apply, by return or by exception,
\* releases the lock
T_Apply_Done(t) ==
    /\ pc[t] = "in_pfctl"
    /\ lock' = [lock EXCEPT !["pfctl"] = 0]
    /\ Goto(t, "idle")
    /\ local' = [local EXCEPT ![t] = NoLocal]
    /\ UNCHANGED <<fwVars, inserted, lastCall, dhcpVars, hostVars, pfctl_input>>

InitThreads ==
    /\ rules = FirewallManager.rules
    /\ is_dirty = FirewallManager.is_dirty
    /\ apply_deferred = FirewallManager.apply_deferred
    /\ inserted = <<>>
    /\ lastCall = NoCall
    /\ pid_file = <<>>
    /\ cmdline = <<>>
    /\ pc = [t \in Threads |-> "idle"]
    /\ local = [t \in Threads |-> NoLocal]
    /\ lock = [n \in LockNames |-> 0]
    /\ pfctl_input = NoInput
    /\ ra_pid_file = <<>>
    /\ conf_file = <<>>
    /\ loaded = <<>>
    /\ net = <<>>
    /\ orig = <<>>
    /\ CONF = Defaults

NextThreads ==
    \E t \in Threads :
        \/ T_AddRule_Check(t)
        \/ T_AddRule_Append(t)
        \/ T_RemoveRule_Remove(t)
        \/ T_SetDirty(t)
        \/ T_Apply_Check(t)
        \/ T_Apply_Lock(t)
        \/ T_Apply_Translation(t)
        \/ T_Apply_Filtering(t)
        \/ T_Apply_Clear(t)
        \/ T_Apply_Pfctl(t)
        \/ T_Apply_Done(t)

\* threads calling add_rule, remove_rule and apply on the one firewall_manager,
\* interleaved statement by statement
SpecThreads == InitThreads /\ [][NextThreads]_vars

-----------------------------------------------------------------------------
(* Threads in the dnsmasq supervisor *)

\* conf_file[dev] before any call wrote the file, loaded[dev] before any load
NoWriter == 0
NoLoad == [file |-> NoWriter, by |-> 0, wrote |-> ""]

\* a thread's locals: the device and pid of its call, the accept rules its
\* helper has gone through, the caller of the helper, the all_lines of _apply,
\* the calls it has made, and the file its call wrote before restart_dhcp
\* ("conf" in update_dhcp, "hosts" in update_dns)
NoDhcpLocal ==
    [dev |-> "", pid |-> None, i |-> 0, from |-> "", all_lines |-> <<>>, calls |-> 0,
     wrote |-> ""]

\* the calls the threads 1..n have made
RECURSIVE CallsMade(_)
CallsMade(n) == IF n = 0 THEN 0 ELSE local[n].calls + CallsMade(n - 1)

\* the locals of thread t between two calls: the count of its calls stays
Returned(t) == [NoDhcpLocal EXCEPT !.calls = local[t].calls]

\* the device the concurrent callers refresh and stop
ThreadDevs == {"br100"}

\* the daemon of dev reads nova-<dev>.conf, on behalf of thread t
Load(ld, cf, dev, t) ==
    [ld EXCEPT ![dev] = [file |-> cf[dev], by |-> t, wrote |-> local[t].wrote]]

\* update_dhcp: write_to_file(conffile, get_dhcp_hosts(...)), before restart_dhcp
T_UpdateDhcp_Write(t) ==
    \E dev \in ThreadDevs :
        /\ pc[t] = "idle"
        /\ CallsMade(NumThreads) < MaxCalls
        /\ conf_file' = [conf_file EXCEPT ![dev] = t]
        /\ local' = [local EXCEPT ![t] = [Returned(t) EXCEPT !.dev = dev, !.calls = @ + 1,
                                                             !.wrote = "conf"]]
        /\ Goto(t, "restart_lock")
        /\ UNCHANGED <<fwVars, inserted, lastCall, dhcpVars, lock, pfctl_input,
                       raVars, cfgVars, loaded, bridgeVars>>

\* update_dns: write_to_file(hostsfile, get_dns_hosts(...)), before
\* restart_dhcp; the conf file stays what the last update_dhcp wrote
T_UpdateDns_Write(t) ==
    \E dev \in ThreadDevs :
        /\ pc[t] = "idle"
        /\ CallsMade(NumThreads) < MaxCalls
        /\ local' = [local EXCEPT ![t] = [Returned(t) EXCEPT !.dev = dev, !.calls = @ + 1,
                                                             !.wrote = "hosts"]]
        /\ Goto(t, "restart_lock")
        /\ UNCHANGED <<fwVars, inserted, lastCall, dhcpVars, lock, pfctl_input, hostVars>>

\* restart_dhcp: entering the synchronized('dnsmasq_start') section
T_RestartDhcp_Lock(t) ==
    /\ pc[t] = "restart_lock"
    /\ CanAcquire(lock, "dnsmasq_start")
    /\ lock' = [lock EXCEPT !["dnsmasq_start"] = t]
    /\ Goto(t, "restart_probe")
    /\ UNCHANGED <<fwVars, inserted, lastCall, dhcpVars, local, pfctl_input, hostVars>>

\* restart_dhcp from the opts file to the test of the pid and its command line
T_RestartDhcp_Probe(t) ==
    LET dev == local[t].dev
        pid == _dnsmasq_pid_for(pid_file, dev)
    IN  /\ pc[t] = "restart_probe"
        /\ local' = [local EXCEPT ![t].pid = pid]
        /\ IF Truthy(pid) /\ is_pid_cmdline_correct(cmdline, pid, _dhcp_file(dev, "conf"))
           THEN Goto(t, "restart_hup")
           ELSE Goto(t, "restart_spawn")
        /\ UNCHANGED <<fwVars, inserted, lastCall, dhcpVars, lock, pfctl_input, hostVars>>

\* _execute('kill', '-HUP', pid): it can exit 0 only when the process exists,
\* and the daemon then reads its conf file again; a failure is logged
T_RestartDhcp_Hup(t) ==
    \E ok \in BOOLEAN :
        LET dev == local[t].dev IN
        /\ pc[t] = "restart_hup"
        /\ ok => cmdline[local[t].pid] # NoProcess
        /\ loaded' = IF ok THEN Load(loaded, conf_file, dev, t) ELSE loaded
        /\ IF ok THEN Goto(t, "restart_accept_hup") ELSE Goto(t, "restart_spawn")
        /\ UNCHANGED <<fwVars, inserted, lastCall, dhcpVars, local, lock, pfctl_input,
                       raVars, cfgVars, conf_file, bridgeVars>>

\* the positions of a thread inside _add_dnsmasq_accept_rules and
\* _remove_dnsmasq_accept_rules, before firewall_manager.apply()
InAcceptRules == {"restart_accept_hup", "restart_accept", "kill_remove"}

\* the caller of the helper goes on after the helper returned or raised:
\* after the HUP an exception is logged and the spawn follows, else
\* restart_dhcp is left; kill_dhcp ends
AfterAcceptRules(t, from, raised) ==
    IF from = "restart_accept_hup" /\ raised # "none"
    THEN /\ Goto(t, "restart_spawn")
         /\ local' = [local EXCEPT ![t] = [Returned(t) EXCEPT !.dev = local[t].dev,
                                                             !.pid = local[t].pid,
                                                             !.wrote = local[t].wrote]]
    ELSE IF from = "kill_remove"
    THEN /\ Goto(t, "idle")
         /\ local' = [local EXCEPT ![t] = Returned(t)]
    ELSE /\ Goto(t, "restart_return")
         /\ local' = [local EXCEPT ![t] = Returned(t)]

\* leaving restart_dhcp, by return or by exception, releases dnsmasq_start
T_RestartDhcp_Return(t) ==
    /\ pc[t] = "restart_return"
    /\ lock' = [lock EXCEPT !["dnsmasq_start"] = 0]
    /\ Goto(t, "idle")
    /\ local' = [local EXCEPT ![t] = Returned(t)]
    /\ UNCHANGED <<fwVars, inserted, lastCall, dhcpVars, pfctl_input, hostVars>>

\* one firewall_manager.add_rule of _add_dnsmasq_accept_rules(dev) after the HUP
T_RestartDhcp_AcceptHup(t) ==
    /\ pc[t] = "restart_accept_hup"
    /\ local[t].i < Len(AcceptRules(local[t].dev))
    /\ \E fw \in {add_rule(Self, AcceptRules(local[t].dev)[local[t].i + 1])} :
           /\ rules' = fw.self.rules
           /\ is_dirty' = fw.self.is_dirty
    /\ local' = [local EXCEPT ![t].i = @ + 1]
    /\ UNCHANGED <<apply_deferred, inserted, lastCall, dhcpVars, pc, lock, pfctl_input,
                   hostVars>>

\* _execute(*cmd) of the dnsmasq command: the daemon takes a free pid, writes
\* its pid file and reads the conf file; a failure leaves restart_dhcp
T_RestartDhcp_Spawn(t) ==
    \E new_pid \in FreePids(cmdline) \cup {None} :
        LET dev == local[t].dev IN
        /\ pc[t] = "restart_spawn"
        /\ IF new_pid # None
           THEN /\ pid_file' = [pid_file EXCEPT ![dev] = new_pid]
                /\ cmdline' = [cmdline EXCEPT ![new_pid] = dnsmasq_cmd(dev)]
                /\ loaded' = Load(loaded, conf_file, dev, t)
                /\ Goto(t, "restart_accept")
                /\ UNCHANGED <<lock, local>>
           ELSE /\ Goto(t, "restart_return")
                /\ local' = [local EXCEPT ![t] = Returned(t)]
                /\ UNCHANGED <<pid_file, cmdline, loaded, lock>>
        /\ UNCHANGED <<fwVars, inserted, lastCall, pfctl_input, raVars, cfgVars, conf_file,
                       bridgeVars>>

\* one firewall_manager.add_rule of _add_dnsmasq_accept_rules(dev) after the
\* spawn
T_RestartDhcp_Accept(t) ==
    /\ pc[t] = "restart_accept"
    /\ local[t].i < Len(AcceptRules(local[t].dev))
    /\ \E fw \in {add_rule(Self, AcceptRules(local[t].dev)[local[t].i + 1])} :
           /\ rules' = fw.self.rules
           /\ is_dirty' = fw.self.is_dirty
    /\ local' = [local EXCEPT ![t].i = @ + 1]
    /\ UNCHANGED <<apply_deferred, inserted, lastCall, dhcpVars, pc, lock, pfctl_input,
                   hostVars>>

\* kill_dhcp up to the test of the pid and its command line
T_KillDhcp_Probe(t) ==
    \E dev \in ThreadDevs :
        LET pid == _dnsmasq_pid_for(pid_file, dev) IN
        /\ pc[t] = "idle"
        /\ CallsMade(NumThreads) < MaxCalls
        /\ local' = [local EXCEPT ![t] = [Returned(t) EXCEPT !.dev = dev, !.pid = pid,
                                                             !.calls = @ + 1]]
        /\ IF Truthy(pid) /\ is_pid_cmdline_correct(cmdline, pid, _dhcp_file(dev, "conf"))
           THEN Goto(t, "kill_signal")
           ELSE Goto(t, "kill_remove")
        /\ UNCHANGED <<fwVars, inserted, lastCall, dhcpVars, lock, pfctl_input, hostVars>>

\* _execute('kill', '-9', pid): it can exit 0 only when the process exists,
\* which is then gone; a failure leaves kill_dhcp
T_KillDhcp_Signal(t) ==
    \E ok \in BOOLEAN :
        /\ pc[t] = "kill_signal"
        /\ ok => cmdline[local[t].pid] # NoProcess
        /\ cmdline' = IF ok THEN [cmdline EXCEPT ![local[t].pid] = NoProcess]
                      ELSE cmdline
        /\ IF ok
           THEN Goto(t, "kill_remove") /\ UNCHANGED local
           ELSE Goto(t, "idle") /\ local' = [local EXCEPT ![t] = Returned(t)]
        /\ UNCHANGED <<fwVars, inserted, lastCall, pid_file, lock, pfctl_input, hostVars>>

\* one firewall_manager.remove_rule of _remove_dnsmasq_accept_rules(dev)
T_KillDhcp_Remove(t) ==
    /\ pc[t] = "kill_remove"
    /\ local[t].i < Len(AcceptRules(local[t].dev))
    /\ \E fw \in {remove_rule(Self, AcceptRules(local[t].dev)[local[t].i + 1])} :
           /\ rules' = fw.self.rules
           /\ is_dirty' = fw.self.is_dirty
    /\ local' = [local EXCEPT ![t].i = @ + 1]
    /\ UNCHANGED <<apply_deferred, inserted, lastCall, dhcpVars, pc, lock, pfctl_input,
                   hostVars>>

\* firewall_manager.apply(), the last statement of both helpers, up to _apply:
\* it returns when the commit is deferred or nothing is dirty
T_AcceptRules_Apply(t) ==
    /\ pc[t] \in InAcceptRules
    /\ local[t].i = Len(AcceptRules(local[t].dev))
    /\ IF apply_deferred \/ ~is_dirty
       THEN AfterAcceptRules(t, pc[t], "none")
       ELSE /\ Goto(t, "apply_lock")
            /\ local' = [local EXCEPT ![t].from = pc[t]]
    /\ UNCHANGED <<fwVars, inserted, lastCall, dhcpVars, lock, pfctl_input, hostVars>>

\* pfctl ends, with an accepted exit code or not; leaving _apply releases the
\* pfctl lock, and apply and the helper return or pass the exception on
T_AcceptRules_Done(t) ==
    \E ok \in BOOLEAN :
        /\ pc[t] = "in_pfctl"
        /\ lock' = [lock EXCEPT !["pfctl"] = 0]
        /\ AfterAcceptRules(t, local[t].from,
                            IF ok THEN "none" ELSE "ProcessExecutionError")
        /\ UNCHANGED <<fwVars, inserted, lastCall, dhcpVars, pfctl_input, hostVars>>

InitDhcpThreads ==
    /\ rules = FirewallManager.rules
    /\ is_dirty = FirewallManager.is_dirty
    /\ apply_deferred = FirewallManager.apply_deferred
    /\ inserted = <<>>
    /\ lastCall = NoCall
    /\ pid_file = [d \in Devs |-> NoFile]
    /\ cmdline = [p \in Pids |-> NoProcess]
    /\ pc = [t \in Threads |-> "idle"]
    /\ local = [t \in Threads |-> NoDhcpLocal]
    /\ lock = [n \in LockNames |-> 0]
    /\ pfctl_input = NoInput
    /\ ra_pid_file = <<>>
    /\ conf_file = [d \in Devs |-> NoWriter]
    /\ loaded = [d \in Devs |-> NoLoad]
    /\ net = <<>>
    /\ orig = <<>>
    /\ CONF = Defaults

NextDhcpThreads ==
    \E t \in Threads :
        \/ T_UpdateDhcp_Write(t)
        \/ T_UpdateDns_Write(t)
        \/ T_RestartDhcp_Lock(t)
        \/ T_RestartDhcp_Probe(t)
        \/ T_RestartDhcp_Hup(t)
        \/ T_RestartDhcp_AcceptHup(t)
        \/ T_RestartDhcp_Spawn(t)
        \/ T_RestartDhcp_Accept(t)
        \/ T_RestartDhcp_Return(t)
        \/ T_KillDhcp_Probe(t)
        \/ T_KillDhcp_Signal(t)
        \/ T_KillDhcp_Remove(t)
        \/ T_AcceptRules_Apply(t)
        \/ T_Apply_Lock(t)
        \/ T_Apply_Translation(t)
        \/ T_Apply_Filtering(t)
        \/ T_Apply_Clear(t)
        \/ T_Apply_Pfctl(t)
        \/ T_AcceptRules_Done(t)

\* threads calling update_dhcp, update_dns and kill_dhcp, interleaved step by step
SpecDhcpThreads == InitDhcpThreads /\ [][NextDhcpThreads]_vars

-----------------------------------------------------------------------------
(* initialize_gateway_device *)

\* a network_ref: its DHCP-server address
NetworkRef(dhcp_server) == [dhcp_server |-> dhcp_server]

\* the network_ref of a call without a network: None
NoNetworkRef == NetworkRef(None)

\* _enable_ipv4_forwarding: the value is read, and set when the comparison
\* "stdout.strip() is not '1'" is true. The comparison is one of identity, so
\* its result for the text "1" is up to the interpreter: must_set is that
\* result; the text 'fake' of a logged command is not '1'
_enable_ipv4_forwarding(conf, st, must_set, f) ==
    With(_execute(conf, st, "sysctl -n", "", NoArg, "check", f),
         LAMBDA s : IF must_set \/ conf.fake_network
                    THEN _execute(conf, s, "sysctl set", "", NoArg, "check", f)
                    ELSE s)

\* _execute(*_ifconfig_tail_cmd(dev, ip_params, 'delete')) for each address
RECURSIVE delete_addresses(_, _, _, _, _)
delete_addresses(conf, st, as, dev, f) ==
    IF as = <<>> THEN st
    ELSE delete_addresses(conf,
                          _execute(conf, st, "inet delete", dev, Head(as), "check", f),
                          Tail(as), dev, f)

\* _execute(*_ifconfig_tail_cmd(dev, ip_params, 'add')) for each address
RECURSIVE add_addresses(_, _, _, _, _)
add_addresses(conf, st, as, dev, f) ==
    IF as = <<>> THEN st
    ELSE add_addresses(conf,
                       _execute(conf, st, "inet add", dev, Head(as), "check", f),
                       Tail(as), dev, f)

new_ip_params_dhcp_last(full_ip, old_ip_params) ==
    SelectSeq(old_ip_params, LAMBDA a : a # full_ip) \o <<full_ip>>

\* the DHCP-server address, then the lines of ifconfig with another address
new_ip_params(full_ip, old_ip_params) ==
    <<full_ip>> \o SelectSeq(old_ip_params, LAMBDA a : a # full_ip)

\* send_arp_for_ip(ip, device, count): arping, its exit code ignored
send_arp_for_ip(conf, st, ip, device, f) ==
    _execute(conf, st, "arping", device, ip, "ignore", f)

\* the floating address of the host, str(floating_ip) + '/32'
FloatingAddr == MaxAddrs + 1

\* bind_floating_ip(floating_ip, device): the address is added to the device,
\* then the arping when CONF.send_arp_for_ha is set (with a positive count)
bind_floating_ip(conf, n, floating_ip, device, f) ==
    With(_execute(conf, Start(n), "inet add", device, floating_ip, "check", f),
         LAMBDA s : IF conf.send_arp_for_ha
                    THEN send_arp_for_ip(conf, s, floating_ip, device, f)
                    ELSE s)

\* unbind_floating_ip(floating_ip, device)
unbind_floating_ip(conf, n, floating_ip, device, f) ==
    _execute(conf, Start(n), "inet delete", device, floating_ip, "check", f)

\* the branch of initialize_gateway_device that puts the DHCP-server address
\* first: routes out, addresses out, addresses in, routes back, then the arping
\* when CONF.send_arp_for_ha is set (with a positive count)
reorder_addresses(conf, st, dev, full_ip, old_ip_params, f) ==
    With(_execute(conf, st, "netstat", "", NoArg, "check", f),
         LAMBDA s1 :
           With(netstat_routes(conf, s1, dev),
                LAMBDA old :
                  With(add_routes(conf,
                         add_addresses(conf,
                           delete_addresses(conf, delete_routes(conf, s1, old, f),
                                            old_ip_params, dev, f),
                           new_ip_params(full_ip, old_ip_params), dev, f),
                         old, f),
                       LAMBDA s2 :
                         IF conf.send_arp_for_ha
                         THEN send_arp_for_ip(conf, s2, full_ip, dev, f)
                         ELSE s2)))

\* initialize_gateway_device(dev, network_ref) on host n with fault f;
\* network_ref is NoNetworkRef or a NetworkRef
initialize_gateway_device(conf, n, dev, network_ref, must_set, f) ==
    IF network_ref = NoNetworkRef THEN Start(n)
    ELSE
    With(_execute(conf, _enable_ipv4_forwarding(conf, Start(n), must_set, f),
                  "ifconfig", dev, NoArg, "check", f),
         LAMBDA s1 :
           With(ifconfig_inet(conf, s1, dev),
                LAMBDA old_ip_params :
                  With(IF old_ip_params = <<>>
                          \/ old_ip_params[1] # network_ref.dhcp_server
                       THEN reorder_addresses(conf, s1, dev, network_ref.dhcp_server,
                                              old_ip_params, f)
                       ELSE s1,
                       LAMBDA g :
                         IF conf.use_ipv6
                         THEN _execute(conf, g, "inet6", dev, NoArg, "check", f)
                         ELSE g)))

\* the most commands one initialize_gateway_device runs
GwCmdLimit == 10 + 2 * MaxAddrs + 2 * MaxRoutes

GwFaults == {NoFault} \cup [at : 1..GwCmdLimit, how : {"fails"}]

\* a call on the addresses of the bridge ends with result res
GwCompletes(op, arg, res) ==
    /\ net' = res.net
    /\ lastCall' = [NoCall EXCEPT !.op = op, !.arg = arg, !.pre = Self,
                                   !.raised = res.raised, !.cmds = res.cmds,
                                   !.pre_net = net]
    /\ UNCHANGED <<fwVars, inserted, dhcpVars, threadVars, raVars, cfgVars,
                   confVars, orig>>

\* initialize_gateway_device for the bridge and a network of the host, or for
\* no network; a command fails only in the first call
InitializeGatewayDevice ==
    \E ref \in {NoNetworkRef} \cup {NetworkRef(a) : a \in Addrs},
       must_set \in BOOLEAN, f \in GwFaults :
      /\ ref = NoNetworkRef => (must_set /\ f = NoFault)
      /\ f # NoFault => lastCall = NoCall
      /\ \E res \in {initialize_gateway_device(CONF, net, Bridge, ref, must_set, f)} :
        /\ f.at <= Len(res.cmds)
        /\ GwCompletes("initialize_gateway_device", <<Bridge, ref.dhcp_server>>, res)

\* bind_floating_ip of the floating address on the bridge; the command fails
\* when the bridge holds the address already
BindFloatingIp ==
    \E res \in {bind_floating_ip(CONF, net, FloatingAddr, Bridge, NoFault)} :
        GwCompletes("bind_floating_ip", <<Bridge, FloatingAddr>>, res)

\* unbind_floating_ip of the floating address on the bridge; the command
\* fails when the bridge does not hold the address
UnbindFloatingIp ==
    \E res \in {unbind_floating_ip(CONF, net, FloatingAddr, Bridge, NoFault)} :
        GwCompletes("unbind_floating_ip", <<Bridge, FloatingAddr>>, res)

\* the orders a set of addresses can have on a device
Orders(S) ==
    {s \in [1..Cardinality(S) -> S] : \A i, j \in 1..Cardinality(S) : s[i] = s[j] => i = j}

\* a host with a bridge that holds the addresses as, the floating address
\* perhaps bound after them, and carries the gateway routes to D
GatewayHost(as, D) ==
    [Host({}, {}, TRUE, FALSE) EXCEPT
        !.addrs[Bridge] = as,
        !.routes = @ \o [i \in 1..Cardinality(D) |->
                            Route(SortedSeq(D)[i], GwOf(SortedSeq(D)[i]), "UGS", Bridge)]]

InitGateway ==
    /\ rules = FirewallManager.rules
    /\ is_dirty = FirewallManager.is_dirty
    /\ apply_deferred = FirewallManager.apply_deferred
    /\ inserted = <<>>
    /\ lastCall = NoCall
    /\ pid_file = <<>>
    /\ cmdline = <<>>
    /\ pc = <<>>
    /\ local = <<>>
    /\ lock = <<>>
    /\ pfctl_input = <<>>
    /\ ra_pid_file = <<>>
    /\ conf_file = <<>>
    /\ loaded = <<>>
    /\ \E A \in SUBSET Addrs, D \in SUBSET Dests, bound \in BOOLEAN :
           /\ \A d \in D : GwOf(d) \in A
           /\ \E as \in Orders(A) :
                  net = GatewayHost(IF bound THEN Append(as, FloatingAddr) ELSE as, D)
    /\ orig = <<>>
    /\ \E ipv6, arp \in BOOLEAN :
           CONF = [Defaults EXCEPT !.use_ipv6 = ipv6, !.send_arp_for_ha = arp]

NextGateway ==
    \/ InitializeGatewayDevice
    \/ BindFloatingIp
    \/ UnbindFloatingIp

\* the initialize_gateway_device, bind_floating_ip and unbind_floating_ip
\* calls of one thread on one bridge
SpecGateway == InitGateway /\ [][NextGateway]_vars

-----------------------------------------------------------------------------
(* Threads in the bridge and VLAN operations *)

\* the names of the external locks of the interface driver
DeviceLockNames == {"lock_bridge", "lock_vlan"}

BridgeOps == {"ensure_bridge", "remove_bridge"}
VlanOps == {"ensure_vlan", "remove_vlan"}

LockOf_one(op) == "lock_bridge"

\* the name each operation gives utils.synchronized
LockOf(op) == IF op \in VlanOps THEN "lock_vlan" ELSE "lock_bridge"

\* the lock of the other kind of operation
OtherLock(op) == IF op \in VlanOps THEN "lock_bridge" ELSE "lock_vlan"

\* the device a thread's operation is about: the first VLAN, or the bridge
DevOf(op) == IF op \in VlanOps THEN VlanName(1) ELSE Bridge

\* the interface a thread passes to ensure_bridge: the physical interface of a
\* flat network (plug) or the VLAN interface (ensure_vlan_bridge)
BridgeInterfaces == {Interface, VlanName(1)}

\* a thread's locals: its operation and the interface it passed, the
\* exception it is leaving with, the gateway routes it read from netstat, the
\* lines it still has to work through, and (history) the thread that was
\* inside an operation of the other kind when this one entered and has been
\* inside it ever since (0: none)
NoDevLocal ==
    [op |-> "none", interface |-> "", raised |-> "none",
     old_routes |-> <<>>, todo |-> <<>>, overlaps |-> 0]

\* the positions between entering and leaving the synchronized function
DevBody ==
    {"dev_probe", "bridge_create", "bridge_up", "bridge_addm", "bridge_ether",
     "bridge_up_interface", "bridge_netstat", "bridge_route_delete",
     "bridge_ifconfig", "bridge_inet_delete", "bridge_inet_add",
     "bridge_route_add", "bridge_rules", "bridge_remove_rules", "bridge_reprobe",
     "bridge_down", "bridge_destroy", "vlan_create", "vlan_ether", "vlan_up",
     "vlan_mtu", "vlan_destroy", "dev_release"}

\* a command of a thread either runs on the host as it is now or exits
\* non-zero without effect
DevOutcomes == {NoFault, [at |-> 1, how |-> "fails"]}

\* the thread's command ended with res: the host is res.net, and the thread
\* goes on at next, or leaves the function with the exception raised
DevRun(t, res, next) ==
    /\ net' = res.net
    /\ pc' = [pc EXCEPT ![t] = IF res.raised = "none" THEN next ELSE "dev_release"]
    /\ UNCHANGED <<fwVars, inserted, lastCall, dhcpVars, raVars, confVars, cfgVars,
                   orig, lock, pfctl_input>>

\* DevRun for a command after which the locals are as they were, but for the
\* exception
DevCmd(t, res, next) ==
    /\ DevRun(t, res, next)
    /\ local' = [local EXCEPT ![t].raised = res.raised]

\* a thread calls one of the four operations and reaches its lock
T_Dev_Call(t) ==
    \E op \in BridgeOps \cup VlanOps :
      \E interface \in IF op = "ensure_bridge" THEN BridgeInterfaces ELSE {""} :
        /\ pc[t] = "idle"
        /\ local' = [local EXCEPT ![t] = [NoDevLocal EXCEPT !.op = op,
                                                           !.interface = interface]]
        /\ Goto(t, "dev_lock")
        /\ UNCHANGED <<fwVars, inserted, lastCall, dhcpVars, hostVars, lock, pfctl_input>>

\* entering the synchronized function
T_Dev_Lock(t) ==
    /\ pc[t] = "dev_lock"
    /\ CanAcquire(lock, LockOf(local[t].op))
    /\ lock' = [lock EXCEPT ![LockOf(local[t].op)] = t]
    /\ local' = [local EXCEPT ![t].overlaps = IF lock[OtherLock(local[t].op)] # t
                                              THEN lock[OtherLock(local[t].op)]
                                              ELSE 0]
    /\ Goto(t, "dev_probe")
    /\ UNCHANGED <<fwVars, inserted, lastCall, dhcpVars, hostVars, pfctl_input>>

\* the first statement of each operation: device_exists(bridge) in
\* ensure_bridge and remove_bridge, device_exists(interface) in ensure_vlan and
\* in the delete_net_dev of remove_vlan
T_Dev_Probe(t) ==
    /\ pc[t] = "dev_probe"
    /\ \E f \in DevOutcomes :
         \E res \in {probe(CONF, Start(net), DevOf(local[t].op), f)} :
           /\ DevRun(t, res,
                     CASE local[t].op = "ensure_bridge" ->
                              IF device_exists(res) THEN "bridge_addm" ELSE "bridge_create"
                       [] local[t].op = "ensure_vlan" ->
                              IF device_exists(res) THEN "vlan_mtu" ELSE "vlan_create"
                       [] local[t].op = "remove_bridge" ->
                              IF device_exists(res) THEN "bridge_remove_rules"
                              ELSE "dev_release"
                       [] local[t].op = "remove_vlan" ->
                              IF device_exists(res) THEN "vlan_destroy" ELSE "dev_release")
           /\ local' = local

\* ensure_bridge: ifconfig bridge create name <bridge>
T_Bridge_Create(t) ==
    /\ pc[t] = "bridge_create"
    /\ \E f \in DevOutcomes :
         \E res \in {_execute(CONF, Start(net), "create", Bridge, NoArg, "exists", f)} :
           /\ DevCmd(t, res, "bridge_up")

\* ensure_bridge: ifconfig <bridge> up
T_Bridge_Up(t) ==
    /\ pc[t] = "bridge_up"
    /\ \E f \in DevOutcomes :
         \E res \in {_execute(CONF, Start(net), "up", Bridge, NoArg, "check", f)} :
           /\ DevCmd(t, res, "bridge_addm")

\* ensure_bridge: ifconfig <bridge> addm <interface>
T_Bridge_Addm(t) ==
    /\ pc[t] = "bridge_addm"
    /\ \E f \in DevOutcomes :
         \E res \in {_execute(CONF, Start(net), "addm", Bridge, local[t].interface,
                              "exists", f)} :
           /\ DevCmd(t, res, IF CONF.fake_network THEN "bridge_up_interface"
                             ELSE "bridge_ether")

\* ensure_bridge: the MAC address of the interface is read through netifaces
\* and ifconfig <bridge> ether <that address> run
T_Bridge_Ether(t) ==
    /\ pc[t] = "bridge_ether"
    /\ \E f \in DevOutcomes :
         \E res \in {_execute(CONF, ifaddresses(Start(net), local[t].interface),
                              "ether", Bridge, local[t].interface, "check", f)} :
           /\ DevCmd(t, res, "bridge_up_interface")

\* ensure_bridge: ifconfig <interface> up, its exit code ignored
T_Bridge_UpInterface(t) ==
    /\ pc[t] = "bridge_up_interface"
    /\ \E f \in DevOutcomes :
         \E res \in {_execute(CONF, Start(net), "up", local[t].interface, NoArg,
                              "ignore", f)} :
           /\ DevCmd(t, res, "bridge_netstat")

\* ensure_bridge: netstat -nrW -f inet, whose gateway routes through the
\* interface are old_routes
T_Bridge_Netstat(t) ==
    /\ pc[t] = "bridge_netstat"
    /\ \E f \in DevOutcomes :
         \E res \in {_execute(CONF, Start(net), "netstat", "", NoArg, "check", f)} :
           /\ DevRun(t, res,
                     IF netstat_routes(CONF, res, local[t].interface) = <<>>
                     THEN "bridge_ifconfig" ELSE "bridge_route_delete")
           /\ local' = [local EXCEPT
                           ![t].raised = res.raised,
                           ![t].old_routes = netstat_routes(CONF, res, local[t].interface),
                           ![t].todo = netstat_routes(CONF, res, local[t].interface)]

\* ensure_bridge: route -q delete for the next of those lines
T_Bridge_RouteDelete(t) ==
    /\ pc[t] = "bridge_route_delete"
    /\ \E f \in DevOutcomes :
         \E res \in {delete_routes(CONF, Start(net), SubSeq(local[t].todo, 1, 1), f)} :
           /\ DevRun(t, res, IF Len(local[t].todo) = 1 THEN "bridge_ifconfig"
                             ELSE "bridge_route_delete")
           /\ local' = [local EXCEPT ![t].raised = res.raised, ![t].todo = Tail(@)]

\* ensure_bridge: ifconfig <interface>, whose 'inet' lines are to be moved
T_Bridge_Ifconfig(t) ==
    /\ pc[t] = "bridge_ifconfig"
    /\ \E f \in DevOutcomes :
         \E res \in {_execute(CONF, Start(net), "ifconfig", local[t].interface, NoArg,
                              "check", f)} :
           /\ DevRun(t, res,
                     IF ifconfig_inet(CONF, res, local[t].interface) # <<>>
                     THEN "bridge_inet_delete"
                     ELSE IF local[t].old_routes # <<>> THEN "bridge_route_add"
                     ELSE "bridge_rules")
           /\ local' = [local EXCEPT
                           ![t].raised = res.raised,
                           ![t].todo = ifconfig_inet(CONF, res, local[t].interface)]

\* ensure_bridge: the address of the next 'inet' line is deleted from the
\* interface
T_Bridge_InetDelete(t) ==
    /\ pc[t] = "bridge_inet_delete"
    /\ \E f \in DevOutcomes :
         \E res \in {_execute(CONF, Start(net), "inet delete", local[t].interface,
                              Head(local[t].todo), "check", f)} :
           /\ DevCmd(t, res, "bridge_inet_add")

\* ensure_bridge: and added to the bridge
T_Bridge_InetAdd(t) ==
    /\ pc[t] = "bridge_inet_add"
    /\ \E f \in DevOutcomes :
         \E res \in {_execute(CONF, Start(net), "inet add", Bridge, Head(local[t].todo),
                              "check", f)} :
           /\ DevRun(t, res,
                     IF Len(local[t].todo) > 1 THEN "bridge_inet_delete"
                     ELSE IF local[t].old_routes # <<>> THEN "bridge_route_add"
                     ELSE "bridge_rules")
           /\ local' = [local EXCEPT ![t].raised = res.raised, ![t].todo = Tail(@)]

\* ensure_bridge: route -q add for the next of old_routes
T_Bridge_RouteAdd(t) ==
    /\ pc[t] = "bridge_route_add"
    /\ \E f \in DevOutcomes :
         \E res \in {add_routes(CONF, Start(net), SubSeq(local[t].old_routes, 1, 1), f)} :
           /\ DevRun(t, res, IF Len(local[t].old_routes) = 1 THEN "bridge_rules"
                             ELSE "bridge_route_add")
           /\ local' = [local EXCEPT ![t].raised = res.raised, ![t].old_routes = Tail(@)]

\* ensure_bridge: firewall_manager.ensure_gateway_rules(bridge), its last
\* statement (filtering and gateway are True)
T_Bridge_Rules(t) ==
    /\ pc[t] = "bridge_rules"
    /\ \E fw \in {ensure_gateway_rules(Self, Bridge)} :
           /\ rules' = fw.rules
           /\ is_dirty' = fw.is_dirty
           /\ apply_deferred' = fw.apply_deferred
           /\ inserted' = Inserted(inserted, Self, fw)
           /\ Goto(t, "dev_release")
           /\ UNCHANGED <<lastCall, dhcpVars, hostVars, local, lock, pfctl_input>>

\* remove_bridge: firewall_manager.remove_gateway_rules(bridge)
T_Bridge_RemoveRules(t) ==
    /\ pc[t] = "bridge_remove_rules"
    /\ \E fw \in {remove_gateway_rules(Self, Bridge)} :
           /\ rules' = fw.rules
           /\ is_dirty' = fw.is_dirty
           /\ apply_deferred' = fw.apply_deferred
           /\ inserted' = Inserted(inserted, Self, fw)
           /\ Goto(t, "bridge_reprobe")
           /\ UNCHANGED <<lastCall, dhcpVars, hostVars, local, lock, pfctl_input>>

\* remove_bridge: the device_exists(dev) of delete_bridge_dev
T_Bridge_Reprobe(t) ==
    /\ pc[t] = "bridge_reprobe"
    /\ \E f \in DevOutcomes :
         \E res \in {probe(CONF, Start(net), Bridge, f)} :
           /\ DevRun(t, res, IF device_exists(res) THEN "bridge_down" ELSE "dev_release")
           /\ local' = local

\* delete_bridge_dev: ifconfig <bridge> down through utils.execute
T_Bridge_Down(t) ==
    /\ pc[t] = "bridge_down"
    /\ \E f \in DevOutcomes :
         \E res \in {execute(Start(net), "down", Bridge, NoArg, "check", f)} :
           /\ DevCmd(t, res, "bridge_destroy")

\* delete_bridge_dev: ifconfig <bridge> destroy through utils.execute
T_Bridge_Destroy(t) ==
    /\ pc[t] = "bridge_destroy"
    /\ \E f \in DevOutcomes :
         \E res \in {execute(Start(net), "destroy", Bridge, NoArg, "check", f)} :
           /\ DevCmd(t, res, "dev_release")

\* ensure_vlan: ifconfig vlan create vlan <n> vlandev <interface> name vlan<n>
T_Vlan_Create(t) ==
    /\ pc[t] = "vlan_create"
    /\ \E f \in DevOutcomes :
         \E res \in {_execute(CONF, Start(net), "create", VlanName(1),
                              <<"vlan", 1, Interface>>, "check", f)} :
           /\ DevCmd(t, res, "vlan_ether")

\* ensure_vlan: ifconfig <interface> ether <mac_address>
T_Vlan_Ether(t) ==
    /\ pc[t] = "vlan_ether"
    /\ \E f \in DevOutcomes :
         \E res \in {_execute(CONF, Start(net), "ether", VlanName(1), Mac, "check", f)} :
           /\ DevCmd(t, res, "vlan_up")

\* ensure_vlan: ifconfig <interface> up
T_Vlan_Up(t) ==
    /\ pc[t] = "vlan_up"
    /\ \E f \in DevOutcomes :
         \E res \in {_execute(CONF, Start(net), "up", VlanName(1), NoArg, "check", f)} :
           /\ DevCmd(t, res, "vlan_mtu")

\* ensure_vlan: _set_device_mtu(interface, mtu), on every call
T_Vlan_Mtu(t) ==
    /\ pc[t] = "vlan_mtu"
    /\ \E f \in DevOutcomes :
         \E res \in {_set_device_mtu(Start(net), VlanName(1), Mtu, f)} :
           /\ DevCmd(t, res, "dev_release")

\* remove_vlan: the ifconfig <interface> destroy of delete_net_dev
T_Vlan_Destroy(t) ==
    /\ pc[t] = "vlan_destroy"
    /\ \E f \in DevOutcomes :
         \E res \in {execute(Start(net), "destroy", VlanName(1), NoArg, "check", f)} :
           /\ DevCmd(t, res, "dev_release")

\* leaving the synchronized function, by return or with the exception
T_Dev_Release(t) ==
    /\ pc[t] = "dev_release"
    /\ lock' = [lock EXCEPT ![LockOf(local[t].op)] = 0]
    /\ local' = [u \in Threads |->
                    IF u = t THEN NoDevLocal
                    ELSE IF local[u].overlaps = t THEN [local[u] EXCEPT !.overlaps = 0]
                    ELSE local[u]]
    /\ Goto(t, "idle")
    /\ UNCHANGED <<fwVars, inserted, lastCall, dhcpVars, hostVars, pfctl_input>>

\* a host before the first ensure_bridge: the physical interface holds the
\* addresses and carries the gateway routes, and there is no bridge and no
\* VLAN interface yet
InitDeviceThreads ==
    /\ rules = FirewallManager.rules
    /\ is_dirty = FirewallManager.is_dirty
    /\ apply_deferred = FirewallManager.apply_deferred
    /\ inserted = <<>>
    /\ lastCall = NoCall
    /\ pid_file = <<>>
    /\ cmdline = <<>>
    /\ pc = [t \in Threads |-> "idle"]
    /\ local = [t \in Threads |-> NoDevLocal]
    /\ lock = [n \in DeviceLockNames |-> 0]
    /\ pfctl_input = NoInput
    /\ ra_pid_file = <<>>
    /\ conf_file = <<>>
    /\ loaded = <<>>
    /\ net = [Host({1}, {1}, FALSE, FALSE)
                  EXCEPT !.addrs = [v \in {VlanName(1)} |-> <<>>] @@ @]
    /\ orig = <<>>
    /\ CONF = Defaults

NextDeviceThreads ==
    \E t \in Threads :
        \/ T_Dev_Call(t)
        \/ T_Dev_Lock(t)
        \/ T_Dev_Probe(t)
        \/ T_Bridge_Create(t)
        \/ T_Bridge_Up(t)
        \/ T_Bridge_Addm(t)
        \/ T_Bridge_Ether(t)
        \/ T_Bridge_UpInterface(t)
        \/ T_Bridge_Netstat(t)
        \/ T_Bridge_RouteDelete(t)
        \/ T_Bridge_Ifconfig(t)
        \/ T_Bridge_InetDelete(t)
        \/ T_Bridge_InetAdd(t)
        \/ T_Bridge_RouteAdd(t)
        \/ T_Bridge_Rules(t)
        \/ T_Bridge_RemoveRules(t)
        \/ T_Bridge_Reprobe(t)
        \/ T_Bridge_Down(t)
        \/ T_Bridge_Destroy(t)
        \/ T_Vlan_Create(t)
        \/ T_Vlan_Ether(t)
        \/ T_Vlan_Up(t)
        \/ T_Vlan_Mtu(t)
        \/ T_Vlan_Destroy(t)
        \/ T_Dev_Release(t)

\* threads calling ensure_bridge, remove_bridge, ensure_vlan and remove_vlan,
\* interleaved command by command
SpecDeviceThreads == InitDeviceThreads /\ [][NextDeviceThreads]_vars

-----------------------------------------------------------------------------
(* Host-binding lines *)

\* the characters hostnames are made of here; none is the "," or "." of the
\* line format
HostChars == <<"a", "b", "c", "d", "e", "f", "-">>

\* a hostname of n characters: the characters of HostChars in turn, from the
\* one at offset k
Hostname(n, k) == [i \in 1..n |-> HostChars[((i + k - 1) % Len(HostChars)) + 1]]

\* Python's s[:n] and s[-n:] for n > 0
slice_to(s, n) == SubSeq(s, 1, IF Len(s) < n THEN Len(s) ELSE n)

slice_last(s, n) == SubSeq(s, IF Len(s) < n THEN 1 ELSE Len(s) - n + 1, Len(s))

\* a fixed ip with its instance's hostname; its addresses are one token each
FixedIpOf(hostname) ==
    [hostname |-> hostname, address |-> "10.0.0.2",
     vif_address |-> "fa:16:3e:00:00:01", virtual_interface_id |-> "1"]

dhcp_domain == "novalocal"

_host_dhcp_network(vif_id) == <<"NW-", vif_id>>

_host_dhcp_first3(conf, fixedip) ==
    LET hostname == IF Len(fixedip.hostname) > 63
                    THEN slice_to(fixedip.hostname, 3) \o <<"-">>
                             \o slice_last(fixedip.hostname, 60)
                    ELSE fixedip.hostname
    IN  <<fixedip.vif_address, ",">> \o hostname
            \o <<".", dhcp_domain, ",", fixedip.address>>

\* _host_dhcp(fixedip): the line as its tokens, the hostname character by
\* character
_host_dhcp(conf, fixedip) ==
    LET hostname == IF Len(fixedip.hostname) > 63
                    THEN slice_to(fixedip.hostname, 2) \o <<"-">>
                             \o slice_last(fixedip.hostname, 60)
                    ELSE fixedip.hostname
    IN  IF conf.use_single_default_gateway
        THEN <<fixedip.vif_address, ",">> \o hostname
                 \o <<".", dhcp_domain, ",", fixedip.address, ",", "net:">>
                 \o _host_dhcp_network(fixedip.virtual_interface_id)
        ELSE <<fixedip.vif_address, ",">> \o hostname
                 \o <<".", dhcp_domain, ",", fixedip.address>>

\* the offsets hostnames start their characters from
HostOffsets == {0, 3}

\* _host_dhcp is called for a fixed ip whose hostname has up to MaxHostLen
\* characters
HostDhcp ==
    \E n \in 0..MaxHostLen, k \in HostOffsets :
        /\ lastCall' = [NoCall EXCEPT !.op = "_host_dhcp",
                                       !.arg = <<Hostname(n, k)>>,
                                       !.ret = _host_dhcp(CONF, FixedIpOf(Hostname(n, k)))]
        /\ UNCHANGED <<fwVars, inserted, dhcpVars, threadVars, hostVars>>

InitHosts ==
    /\ rules = FirewallManager.rules
    /\ is_dirty = FirewallManager.is_dirty
    /\ apply_deferred = FirewallManager.apply_deferred
    /\ inserted = <<>>
    /\ lastCall = NoCall
    /\ pid_file = <<>>
    /\ cmdline = <<>>
    /\ pc = <<>>
    /\ local = <<>>
    /\ lock = <<>>
    /\ pfctl_input = <<>>
    /\ ra_pid_file = <<>>
    /\ conf_file = <<>>
    /\ loaded = <<>>
    /\ net = <<>>
    /\ orig = <<>>
    /\ \E single \in BOOLEAN :
           CONF = [Defaults EXCEPT !.use_single_default_gateway = single]

NextHosts == HostDhcp

\* the host-binding lines of fixed ips with hostnames of every length
SpecHosts == InitHosts /\ [][NextHosts]_vars

-----------------------------------------------------------------------------
(* The upstream DNS servers of the dnsmasq command *)

\* the DNS servers a network can name; "" stands for a dns1 or dns2 left unset
Dns1 == "10.0.0.53"
Dns2 == "10.0.1.53"
ConfiguredDns == "8.8.8.8"

\* a network_ref of restart_dhcp as far as the server list reads it
DnsNetwork(dns1, dns2) == [dns1 |-> dns1, dns2 |-> dns2]

dns_servers_copied(conf, network_ref) == conf.dns_server

\* lines 440-445: dns_servers = CONF.dns_server names the list object of the
\* option, and append changes that object; the result is the list after the
\* appends, which is the option's value from then on
dns_servers(conf, network_ref) ==
    IF conf.use_network_dns_servers
    THEN conf.dns_server
             \o (IF network_ref.dns1 # "" THEN <<network_ref.dns1>> ELSE <<>>)
             \o (IF network_ref.dns2 # "" THEN <<network_ref.dns2>> ELSE <<>>)
    ELSE conf.dns_server

\* lines 448-451: --no-resolv when there is a server, then one --server each
server_args(servers) ==
    (IF servers # <<>> THEN <<<<"--no-resolv">>>> ELSE <<>>)
        \o [i \in 1..Len(servers) |-> <<"--server=", servers[i]>>]

\* a restart_dhcp reached the statements that build the dnsmasq command
ReachedSpawn(res) == \E i \in 1..Len(res.cmds) : res.cmds[i].cmd = "dnsmasq"

\* restart_dhcp(context, dev, network_ref, fixedips) with the option list it
\* leaves behind and the server arguments it passed (in ret); on a host with
\* no pid left a spawn cannot succeed
RestartDhcpServers ==
    \E dns1 \in {"", Dns1}, dns2 \in {"", Dns2},
       new_pid \in IF FreePids(cmdline) = {} THEN {None} ELSE FreePids(cmdline),
       hup_ok \in BOOLEAN,
       spawn_ok \in IF FreePids(cmdline) = {} THEN {FALSE} ELSE BOOLEAN :
      \E res \in {restart_dhcp(Self, pid_file, cmdline, "br100", hup_ok,
                               TRUE, spawn_ok, new_pid, TRUE)} :
      \E servers \in {IF ReachedSpawn(res)
                      THEN dns_servers(CONF, DnsNetwork(dns1, dns2))
                      ELSE CONF.dns_server} :
        /\ Len(servers) <= MaxDnsServers
        /\ CONF' = [CONF EXCEPT !.dns_server = servers]
        /\ rules' = res.self.rules
        /\ is_dirty' = res.self.is_dirty
        /\ apply_deferred' = res.self.apply_deferred
        /\ inserted' = Inserted(inserted, Self, res.self)
        /\ pid_file' = res.pid_file
        /\ cmdline' = res.cmdline
        /\ lastCall' = [NoCall EXCEPT !.op = "restart_dhcp",
                                       !.arg = <<"br100", dns1, dns2>>,
                                       !.pre = Self,
                                       !.commits = res.commits, !.raised = res.raised,
                                       !.cmds = res.cmds,
                                       !.pre_pid_file = pid_file["br100"],
                                       !.pre_cmdline =
                                           IF pid_file["br100"] \in Pids
                                           THEN cmdline[pid_file["br100"]]
                                           ELSE NoProcess,
                                       !.ret = IF ReachedSpawn(res)
                                               THEN server_args(servers) ELSE <<>>]
        /\ UNCHANGED <<threadVars, raVars, confVars, bridgeVars>>

InitDns ==
    /\ rules = FirewallManager.rules
    /\ is_dirty = FirewallManager.is_dirty
    /\ apply_deferred = FirewallManager.apply_deferred
    /\ inserted = <<>>
    /\ lastCall = NoCall
    /\ pid_file = [d \in Devs |-> NoFile]
    /\ cmdline = [p \in Pids |-> NoProcess]
    /\ pc = <<>>
    /\ local = <<>>
    /\ lock = <<>>
    /\ pfctl_input = <<>>
    /\ ra_pid_file = <<>>
    /\ conf_file = <<>>
    /\ loaded = <<>>
    /\ net = <<>>
    /\ orig = <<>>
    /\ \E use \in BOOLEAN, configured \in {<<>>, <<ConfiguredDns>>} :
           CONF = [Defaults EXCEPT !.use_network_dns_servers = use,
                                   !.dns_server = configured]

NextDns ==
    \/ RestartDhcpServers
    \/ ProcessExits

\* the restart_dhcp calls of one thread for one device, with the networks'
\* DNS servers in use or not, and daemons that can end between the calls
SpecDns == InitDns /\ [][NextDns]_vars

-----------------------------------------------------------------------------
(* The named locks of the module *)

\* every name given to utils.synchronized
AllLockNames ==
    {"pfctl", "dnsmasq_start", "radvd_start", "lock_gateway", "lock_vlan",
     "lock_bridge"}

\* the steps of a call that concern locks
Acquire(name) == [do |-> "acquire", name |-> name]
Release(name) == [do |-> "release", name |-> name]

\* a function under @utils.synchronized(name) whose body takes the locks inner
synchronized(name, inner) == <<Acquire(name)>> \o inner \o <<Release(name)>>

_apply_locks_gateway == synchronized("pfctl", synchronized("lock_gateway", <<>>))

\* FirewallManager._apply
_apply_locks == synchronized("pfctl", <<>>)

\* FirewallManager.apply: nothing when deferred or not dirty, else _apply
apply_locks == {<<>>, _apply_locks}

\* restart_dhcp: _add_dnsmasq_accept_rules after the HUP, and again after the
\* spawn when the first raised; each of them ends with apply()
restart_dhcp_locks ==
    {synchronized("dnsmasq_start", a \o b) : a \in apply_locks, b \in apply_locks}

\* kill_dhcp takes no lock itself; _remove_dnsmasq_accept_rules applies
kill_dhcp_locks == apply_locks

update_ra_locks == {synchronized("radvd_start", <<>>)}

\* initialize_gateway_device: its commands run under lock_gateway, and none of
\* its calls (_enable_ipv4_forwarding, send_arp_for_ip) enters a synchronized
\* function
initialize_gateway_device_locks == {synchronized("lock_gateway", <<>>)}

ensure_vlan_locks == synchronized("lock_vlan", <<>>)

remove_vlan_locks == synchronized("lock_vlan", <<>>)

ensure_bridge_locks == synchronized("lock_bridge", <<>>)

remove_bridge_locks == synchronized("lock_bridge", <<>>)

\* plug: ensure_vlan for a VLAN network, ensure_bridge unless ensure_vlan
\* raised, and apply() unless one of them raised; the plug of the other two
\* drivers takes no lock
plug_locks ==
    {v \o ensure_bridge_locks \o a : v \in {<<>>, ensure_vlan_locks}, a \in apply_locks}
        \cup {ensure_vlan_locks, <<>>}

\* unplug: remove_bridge, remove_vlan for a VLAN network unless remove_bridge
\* raised, and apply() unless one of them raised; the unplug of the other two
\* drivers takes no lock
unplug_locks ==
    {remove_bridge_locks \o v \o a : v \in {<<>>, remove_vlan_locks}, a \in apply_locks}
        \cup {<<>>}

\* the lock steps of the calls a thread can make
Calls ==
    apply_locks \cup restart_dhcp_locks \cup kill_dhcp_locks \cup update_ra_locks
        \cup initialize_gateway_device_locks \cup plug_locks \cup unplug_locks
        \cup {ensure_vlan_locks, ensure_bridge_locks}

\* a thread calls an operation; local holds the lock steps it has before it
T_Locks_Call(t) ==
    \E call \in Calls :
        /\ pc[t] = "idle"
        /\ local' = [local EXCEPT ![t] = call]
        /\ Goto(t, "called")
        /\ UNCHANGED <<fwVars, inserted, lastCall, dhcpVars, hostVars, lock, pfctl_input>>

\* entering a synchronized function: the thread waits until the lock is free
T_Locks_Acquire(t) ==
    /\ pc[t] = "called"
    /\ local[t] # <<>>
    /\ Head(local[t]).do = "acquire"
    /\ CanAcquire(lock, Head(local[t]).name)
    /\ lock' = [lock EXCEPT ![Head(local[t]).name] = t]
    /\ local' = [local EXCEPT ![t] = Tail(@)]
    /\ UNCHANGED <<fwVars, inserted, lastCall, dhcpVars, hostVars, pc, pfctl_input>>

\* leaving a synchronized function, its commands having ended
T_Locks_Release(t) ==
    /\ pc[t] = "called"
    /\ local[t] # <<>>
    /\ Head(local[t]).do = "release"
    /\ lock' = [lock EXCEPT ![Head(local[t]).name] = 0]
    /\ local' = [local EXCEPT ![t] = Tail(@)]
    /\ UNCHANGED <<fwVars, inserted, lastCall, dhcpVars, hostVars, pc, pfctl_input>>

\* the operation returns
T_Locks_Return(t) ==
    /\ pc[t] = "called"
    /\ local[t] = <<>>
    /\ Goto(t, "idle")
    /\ UNCHANGED <<fwVars, inserted, lastCall, dhcpVars, hostVars, local, lock, pfctl_input>>

InitLocks ==
    /\ rules = FirewallManager.rules
    /\ is_dirty = FirewallManager.is_dirty
    /\ apply_deferred = FirewallManager.apply_deferred
    /\ inserted = <<>>
    /\ lastCall = NoCall
    /\ pid_file = <<>>
    /\ cmdline = <<>>
    /\ pc = [t \in Threads |-> "idle"]
    /\ local = [t \in Threads |-> <<>>]
    /\ lock = [n \in AllLockNames |-> 0]
    /\ pfctl_input = <<>>
    /\ ra_pid_file = <<>>
    /\ conf_file = <<>>
    /\ loaded = <<>>
    /\ net = <<>>
    /\ orig = <<>>
    /\ CONF = Defaults

NextLocks ==
    \E t \in Threads :
        \/ T_Locks_Call(t)
        \/ T_Locks_Acquire(t)
        \/ T_Locks_Release(t)
        \/ T_Locks_Return(t)

\* utils.synchronized hands a lock that is freed again and again to each
\* thread that keeps asking for it; neither the thread semaphores nor the
\* external file locks behind it promise this
FairHandOver == \A t \in Threads : SF_vars(T_Locks_Acquire(t))

\* threads calling the operations of the module, seen by the locks they take;
\* every thread runs: the commands under a lock end, a function that has
\* ended returns, and a thread asking for a lock that stays free takes it
SpecLocks ==
    /\ InitLocks
    /\ [][NextLocks]_vars
    /\ \A t \in Threads :
           /\ WF_vars(T_Locks_Release(t))
           /\ WF_vars(T_Locks_Return(t))
           /\ WF_vars(T_Locks_Acquire(t))

-----------------------------------------------------------------------------
(* Vocabulary of the properties *)

NoDup(s) == \A i, j \in 1..Len(s) : s[i] = s[j] => i = j

Count(s, x) == Cardinality({i \in 1..Len(s) : s[i] = x})

\* text.split("\n"): the lines of a text
RECURSIVE split_lines(_, _)
split_lines(text, cur) ==
    IF text = <<>> THEN <<cur>>
    ELSE IF Head(text) = NL THEN <<cur>> \o split_lines(Tail(text), <<>>)
    ELSE split_lines(Tail(text), Append(cur, Head(text)))

Lines(text) == split_lines(text, <<>>)

\* the first whitespace-delimited token of a trimmed text (<<>> when it is empty)
RECURSIVE FirstToken(_)
FirstToken(s) ==
    IF s = <<>> \/ IsSpace(Head(s)) THEN <<>> ELSE <<Head(s)>> \o FirstToken(Tail(s))

TranslationVerbs == {<<"nat">>, <<"rdr">>}
FilteringVerbs == {<<"pass">>, <<"block">>}
IsTranslation(r) == FirstToken(r) \in TranslationVerbs
IsFiltering(r) == FirstToken(r) \in FilteringVerbs

StoredRules(r) == Range(r.translation) \cup Range(r.filtering)

ApplyOps == {"apply", "defer_apply_off"}

-----------------------------------------------------------------------------
(* C1 *)

\* C1: whatever calls were made, no rule text occurs twice in the translation
\* list nor twice in the filtering list, and every text a commit sends holds
\* each stored rule on exactly one line.
Thm_C1_NoDuplicateRule ==
    /\ NoDup(rules.translation)
    /\ NoDup(rules.filtering)
    /\ \A k \in 1..Len(lastCall.commits) :
           \A r \in StoredRules(rules) : Count(Lines(lastCall.commits[k]), r) = 1

\* add_rule was called with an untrimmed text whose rule was already stored
Wit_C1_AddedTwice ==
    /\ lastCall.op = "add_rule"
    /\ lastCall.arg # strip(lastCall.arg)
    /\ strip(lastCall.arg) \in Range(lastCall.pre.rules.filtering)
    /\ Count(rules.filtering, strip(lastCall.arg)) = 1

(* C2 *)

\* an apply() with deferral off sends one commit when the store is dirty and
\* none when it is not
C2_CommitCount ==
    (lastCall.op = "apply" /\ ~lastCall.pre.apply_deferred) =>
        Len(lastCall.commits) = IF lastCall.pre.is_dirty THEN 1 ELSE 0

\* an apply() that directly follows a call that sent a commit sends none
C2_NoRecommit ==
    (lastCall.op \in ApplyOps /\ lastCall.commits # <<>> /\ lastCall'.op = "apply")
        => lastCall'.commits = <<>>

\* C2: with deferral off apply() issues no commit when the store is not dirty
\* and exactly one when it is; a further apply() right after a commit issues
\* none.
Thm_C2_CommitOnlyWhenDirty == [](C2_CommitCount) /\ [][C2_NoRecommit]_vars

\* an undeferred apply() found the store dirty and committed it
Wit_C2_DirtyApply ==
    /\ lastCall.op = "apply"
    /\ ~lastCall.pre.apply_deferred
    /\ lastCall.pre.is_dirty
    /\ Len(lastCall.commits) = 1

(* C3 *)

\* C3: when the commit of apply() fails the dirty flag is still set afterwards,
\* and the flag is cleared only by a commit that succeeded.
Cex_C3_DirtyKeptOnFailure ==
    /\ (lastCall.op \in ApplyOps /\ lastCall.raised = "ProcessExecutionError")
           => is_dirty
    /\ (lastCall.pre.is_dirty /\ ~is_dirty)
           => (lastCall.commits # <<>> /\ lastCall.raised = "none")

(* C4 *)

\* C4 as stated: the resume() that ends a deferral issues exactly one commit.
Cex_C4_ResumeAlwaysCommits ==
    (lastCall.op = "defer_apply_off" /\ lastCall.pre.apply_deferred)
        => Len(lastCall.commits) = 1

\* C4 amended: no call issues a commit while deferred; the resume() that ends
\* the deferral issues exactly one commit when the store is dirty and none
\* when it is not, and that commit carries exactly the rules then stored.
Thm_C4_ResumeCommitsIfDirty ==
    /\ (lastCall.pre.apply_deferred /\ lastCall.op # "defer_apply_off")
           => lastCall.commits = <<>>
    /\ (lastCall.op = "defer_apply_off" /\ lastCall.pre.apply_deferred) =>
           /\ Len(lastCall.commits) = IF lastCall.pre.is_dirty THEN 1 ELSE 0
           /\ \A k \in 1..Len(lastCall.commits) :
                  Range(Lines(lastCall.commits[k])) \ {<<>>} = StoredRules(rules)

\* a resume() committed two or more rules gathered while deferred
Wit_C4_ResumeCommitted ==
    /\ lastCall.op = "defer_apply_off"
    /\ lastCall.pre.apply_deferred
    /\ Len(lastCall.commits) = 1
    /\ Len(inserted) >= 2

(* C5 *)

\* C5: every commit sends the whole store: the translation rules in insertion
\* order, then the filtering rules in insertion order, then the closing
\* newline, and nothing else.
Thm_C5_WholeStoreTranslationFirst ==
    \A k \in 1..Len(lastCall.commits) :
        Lines(lastCall.commits[k]) =
            SelectSeq(inserted, IsTranslation) \o SelectSeq(inserted, IsFiltering)
                \o <<<<>>, <<>>>>

\* a commit was sent for a store whose filtering rule was added before a
\* translation rule
Wit_C5_TranslationAddedLater ==
    /\ lastCall.commits # <<>>
    /\ \E i, j \in 1..Len(inserted) :
           i < j /\ IsFiltering(inserted[i]) /\ IsTranslation(inserted[j])

(* C8 *)

\* C8: add_rule of a text whose first whitespace-delimited token is none of
\* nat, rdr, pass, block changes neither list nor the dirty flag; a text that
\* starts with nat or rdr is in the translation list afterwards, one that
\* starts with pass or block in the filtering list.
Cex_C8_ClassifiedByFirstToken ==
    lastCall.op = "add_rule" =>
        LET c == strip(lastCall.arg) IN
        /\ (~IsTranslation(c) /\ ~IsFiltering(c)) =>
               (rules = lastCall.pre.rules /\ is_dirty = lastCall.pre.is_dirty)
        /\ IsTranslation(c) => c \in Range(rules.translation)
        /\ IsFiltering(c) => c \in Range(rules.filtering)

-----------------------------------------------------------------------------
(* C9, C10: restart_dhcp *)

\* the device of the last supervisor call
CallDev == lastCall.arg[1]

IsRestart == lastCall.op = "restart_dhcp"

\* the daemon state the call found: the pid file names a process, and that
\* process's command line references the device's config file or does not
FoundRunning ==
    /\ lastCall.pre_pid_file \in Pids
    /\ Contains(lastCall.pre_cmdline, _dhcp_file(CallDev, "conf"))

FoundStale ==
    /\ lastCall.pre_pid_file \in Pids
    /\ ~Contains(lastCall.pre_cmdline, _dhcp_file(CallDev, "conf"))

CmdNames == {lastCall.cmds[i].cmd : i \in 1..Len(lastCall.cmds)}

Signals == {"kill -HUP", "kill -9", "kill"}

\* the call sent a HUP to the pid of the pid file, and no other signal
HupSent ==
    /\ \E i \in 1..Len(lastCall.cmds) :
           /\ lastCall.cmds[i].cmd = "kill -HUP"
           /\ lastCall.cmds[i].pid = lastCall.pre_pid_file
    /\ \A i \in 1..Len(lastCall.cmds) :
           lastCall.cmds[i].cmd \in Signals =>
               /\ lastCall.cmds[i].cmd = "kill -HUP"
               /\ lastCall.cmds[i].pid = lastCall.pre_pid_file

Spawned == "dnsmasq" \in CmdNames

\* the kill -HUP command of the call exited non-zero
HupFailed ==
    \E i \in 1..Len(lastCall.cmds) :
        lastCall.cmds[i].cmd = "kill -HUP" /\ ~lastCall.cmds[i].ok

\* the commit of the admission rules that follows the HUP failed: a pfctl
\* exited non-zero before the call ran any dnsmasq command
ReloadCommitFailed ==
    \E j \in 1..Len(lastCall.cmds) :
        /\ lastCall.cmds[j].cmd = "pfctl"
        /\ ~lastCall.cmds[j].ok
        /\ \A i \in 1..j : lastCall.cmds[i].cmd # "dnsmasq"

AdmissionRulesStored == Range(AcceptRules(CallDev)) \subseteq Range(rules.filtering)

Thm_C10_StaleRespawns ==
    (IsRestart /\ FoundStale) =>
        /\ CmdNames \cap Signals = {}
        /\ Spawned
        /\ (\E i \in 1..Len(lastCall.cmds) :
                lastCall.cmds[i].cmd = "dnsmasq" /\ lastCall.cmds[i].ok)
               => AdmissionRulesStored

\* the pid of the pid file belonged to an unrelated live process, and the call
\* spawned a daemon under another pid and stored the rules
Wit_C10_StaleRespawned ==
    /\ IsRestart /\ FoundStale /\ lastCall.raised = "none"
    /\ lastCall.pre_cmdline = OtherCmdline
    /\ Spawned /\ AdmissionRulesStored
    /\ pid_file[CallDev] # lastCall.pre_pid_file
    /\ cmdline[pid_file[CallDev]] = dnsmasq_cmd(CallDev)

\* the call sent a failing HUP and ran the dnsmasq command right after it
HupFailedThenSpawned ==
    \E i \in 1..(Len(lastCall.cmds) - 1) :
        /\ lastCall.cmds[i].cmd = "kill -HUP"
        /\ ~lastCall.cmds[i].ok
        /\ lastCall.cmds[i + 1].cmd = "dnsmasq"

\* C11: when restart_dhcp finds the daemon Running and its kill -HUP command
\* fails, the same call goes on to run the dnsmasq command, and the call raises
\* only when the dnsmasq command or the commit after it failed.
Thm_C11_HupFailureFallsThrough ==
    (IsRestart /\ FoundRunning /\ HupFailed) =>
        /\ HupFailedThenSpawned
        /\ lastCall.raised # "none" =>
               \E j \in 1..Len(lastCall.cmds) :
                   lastCall.cmds[j].cmd \in {"dnsmasq", "pfctl"} /\ ~lastCall.cmds[j].ok

\* the HUP of a Running daemon failed and the call returned with a new daemon
\* recorded in the pid file
Wit_C11_RespawnedAfterFailedHup ==
    /\ IsRestart /\ FoundRunning /\ HupFailed /\ lastCall.raised = "none"
    /\ Spawned
    /\ pid_file[CallDev] # lastCall.pre_pid_file
    /\ cmdline[pid_file[CallDev]] = dnsmasq_cmd(CallDev)

(* C12 *)

IsKill == lastCall.op = "kill_dhcp"

\* the call sent a kill -9 to the pid of the pid file
Kill9Sent ==
    \E i \in 1..Len(lastCall.cmds) :
        /\ lastCall.cmds[i].cmd = "kill -9"
        /\ lastCall.cmds[i].pid = lastCall.pre_pid_file

AdmissionRulesAbsent == Range(AcceptRules(CallDev)) \cap StoredRules(rules) = {}

\* C12: kill_dhcp sends a kill -9 to the recorded pid exactly when it finds the
\* daemon Running, sends no signal when it finds it Stale, and in every case
\* none of the four admission rules of the device is stored when it has ended.
Cex_C12_KillAlwaysRemovesRules ==
    IsKill =>
        /\ Kill9Sent <=> FoundRunning
        /\ FoundStale => CmdNames \cap Signals = {}
        /\ AdmissionRulesAbsent

-----------------------------------------------------------------------------
(* C6, C7: concurrent callers *)

\* the positions inside the synchronized body of _apply
InApplyBody ==
    {"apply_translation", "apply_filtering", "apply_clear", "apply_pfctl", "in_pfctl"}

\* C6: at most one thread is inside _apply (building the text or running
\* pfctl) at any time.
Thm_C6_OneCommitAtATime ==
    Cardinality({t \in Threads : pc[t] \in InApplyBody}) <= 1

\* one thread's pfctl is running while another waits to enter _apply
Wit_C6_SecondCallerWaits ==
    \E t, u \in Threads : pc[t] = "in_pfctl" /\ pc[u] = "apply_lock"

\* C7: once every call has returned and the dirty flag is false, the text of
\* the most recent commit is the current content of the store.
Cex_C7_NoLostMutation ==
    ((\A t \in Threads : pc[t] = "idle") /\ ~is_dirty /\ pfctl_input # NoInput)
        => pfctl_input = join(all_lines(rules))

-----------------------------------------------------------------------------
(* C13, C14: concurrent supervisor calls *)

\* the positions of restart_dhcp and of kill_dhcp after their pid probe and
\* before the end of their signal or spawn command
InSupervisorAct == {"restart_hup", "restart_spawn", "kill_signal"}

\* C13: at most one thread is between the pid probe and the end of the signal
\* or spawn command of a restart_dhcp or kill_dhcp, whatever the devices.
Cex_C13_SupervisorExclusive ==
    Cardinality({t \in Threads : pc[t] \in InSupervisorAct}) <= 1

\* C14: the conf file a daemon loads on a reload or spawn is the one written by
\* the update_dhcp call that sent the signal or spawned it.
Cex_C14_LoadsOwnWrite ==
    \A dev \in Devs : loaded[dev].wrote = "conf" => loaded[dev].file = loaded[dev].by

-----------------------------------------------------------------------------
(* C15: update_ra *)

IsUpdateRa == lastCall.op = "update_ra"

\* the daemon state update_ra found
FoundRunningRa ==
    /\ lastCall.pre_pid_file \in Pids
    /\ Contains(lastCall.pre_cmdline, _ra_file(CallDev, "conf"))

FoundStaleRa ==
    /\ lastCall.pre_pid_file \in Pids
    /\ ~Contains(lastCall.pre_cmdline, _ra_file(CallDev, "conf"))

\* the last command of the call is the radvd command
EndsWithSpawn ==
    /\ lastCall.cmds # <<>>
    /\ lastCall.cmds[Len(lastCall.cmds)].cmd = "radvd"

\* the call sent a kill to the pid of the pid file, right before the radvd command
KilledThenSpawned ==
    \E i \in 1..(Len(lastCall.cmds) - 1) :
        /\ lastCall.cmds[i].cmd = "kill"
        /\ lastCall.cmds[i].pid = lastCall.pre_pid_file
        /\ lastCall.cmds[i + 1].cmd = "radvd"

\* C15: every update_ra ends with the radvd command; when it finds the daemon
\* Running it sends a kill to the recorded pid first, whether or not that kill
\* succeeds; when it finds it Stale it sends no signal.
Cex_C15_AlwaysRespawns ==
    IsUpdateRa =>
        /\ EndsWithSpawn
        /\ FoundRunningRa => KilledThenSpawned
        /\ FoundStaleRa => CmdNames \cap Signals = {}

-----------------------------------------------------------------------------
(* C16..C20: ensure_bridge *)

IsEnsure == lastCall.op = "ensure_bridge"

\* the interface argument of the last ensure_bridge ("" for None)
CallInterface == lastCall.arg[2]

\* the call ran to its end: no exception, not killed
Completed == lastCall.raised = "none"

\* the commands that take something away from the host
Destructive == {"route delete", "inet delete", "destroy"}

IsGateway(r) == r.flags \in {"UG", "UGS"}

\* the indices of the commands of the last call with one of the verbs
CmdsAt(verbs) == {i \in 1..Len(lastCall.cmds) : lastCall.cmds[i].cmd \in verbs}

\* an ensure_bridge that directly follows a completed ensure_bridge with the
\* same arguments runs no destructive command and changes nothing on the host
C16_SecondCall ==
    (IsEnsure /\ Completed /\ lastCall'.op = "ensure_bridge"
        /\ lastCall'.arg = lastCall.arg) =>
        /\ \A i \in 1..Len(lastCall'.cmds) : lastCall'.cmds[i].cmd \notin Destructive
        /\ net' = net

\* C16: after an ensure_bridge that completed, a second ensure_bridge with the
\* same inputs issues no route delete, address delete or destroy, and leaves
\* devices, addresses, routes and bridge membership as they were.
Thm_C16_SecondCallHarmless == [][C16_SecondCall]_vars

\* an ensure_bridge found the addresses and a route of the interface already
\* on the bridge and the interface already a member, and changed nothing
Wit_C16_RepeatedAfterMigration ==
    /\ IsEnsure /\ Completed /\ CallInterface = Interface
    /\ lastCall.pre_net = net
    /\ Len(orig.addrs[Interface]) = MaxAddrs
    /\ Range(orig.addrs[Interface]) \subseteq Range(net.addrs[Bridge])
    /\ \E i \in 1..Len(net.routes) : net.routes[i].netif = Bridge
    /\ \E i \in CmdsAt({"addm"}) : lastCall.cmds[i].err = "File exists"
    /\ CmdsAt(Destructive) = {}

\* C17: in every ensure_bridge all route deletes precede all address deletes,
\* and every gateway route through the interface is deleted before the first
\* address delete; a route add re-adds a route the call deleted (same
\* destination and gateway) and comes after every address of the interface was
\* added to the bridge; a call that completes re-adds every route it deleted.
Thm_C17_RoutesOutAddressesOverRoutesBack ==
    IsEnsure =>
        LET c == lastCall.cmds IN
        /\ \A i \in CmdsAt({"route delete"}), j \in CmdsAt({"inet delete"}) : i < j
        /\ CmdsAt({"inet delete"}) # {} =>
               \A k \in 1..Len(lastCall.pre_net.routes) :
                   LET r == lastCall.pre_net.routes[k] IN
                   (IsGateway(r) /\ r.netif = CallInterface) =>
                       \E i \in CmdsAt({"route delete"}) :
                           c[i].ok /\ c[i].arg = <<r.dest, r.gw>>
        /\ \A i \in CmdsAt({"route add"}) :
               /\ \E k \in CmdsAt({"route delete"}) :
                      k < i /\ c[k].ok /\ c[k].arg = c[i].arg
               /\ \A a \in Range(lastCall.pre_net.addrs[Interface]) :
                      \E j \in CmdsAt({"inet add"}) :
                          j < i /\ c[j].ok /\ c[j].dev = Bridge /\ c[j].arg = a
        /\ Completed =>
               \A k \in CmdsAt({"route delete"}) :
                   \E i \in CmdsAt({"route add"}) :
                       k < i /\ c[i].ok /\ c[i].arg = c[k].arg

\* a completed call deleted a route, moved every address, and re-added the route
Wit_C17_RouteDeletedAndReadded ==
    /\ IsEnsure /\ Completed
    /\ CmdsAt({"route delete"}) # {}
    /\ Cardinality(CmdsAt({"inet add"})) = MaxAddrs
    /\ Cardinality(CmdsAt({"route add"})) = Cardinality(CmdsAt({"route delete"}))

\* C18: each address delete on the interface is directly followed by the add
\* of the same address to the bridge, and no address is added otherwise; after
\* a completed call with an interface, the interface holds no address and the
\* bridge holds its own followed by those the interface held, each once.
Thm_C18_AddressesMoved ==
    IsEnsure =>
        LET c == lastCall.cmds IN
        /\ \A i \in CmdsAt({"inet delete"}) :
               (c[i].ok /\ i < Len(c)) =>
                   /\ c[i + 1].cmd = "inet add"
                   /\ c[i + 1].dev = Bridge
                   /\ c[i + 1].arg = c[i].arg
        /\ \A i \in CmdsAt({"inet add"}) :
               /\ i > 1
               /\ c[i - 1].cmd = "inet delete" /\ c[i - 1].ok
               /\ c[i - 1].dev = Interface /\ c[i - 1].arg = c[i].arg
        /\ (Completed /\ CallInterface # "") =>
               /\ net.addrs[Interface] = <<>>
               /\ net.addrs[Bridge] =
                      lastCall.pre_net.addrs[Bridge] \o lastCall.pre_net.addrs[Interface]
               /\ NoDup(net.addrs[Bridge])

\* a completed call moved every address the interface can hold
Wit_C18_AllAddressesMoved ==
    /\ IsEnsure /\ Completed
    /\ Len(lastCall.pre_net.addrs[Interface]) = MaxAddrs
    /\ net.addrs[Interface] = <<>>
    /\ net.addrs[Bridge] = lastCall.pre_net.addrs[Interface]

\* C19: once an ensure_bridge with the interface has completed, whatever
\* interrupted calls came before it, the bridge holds every address the
\* interface held at the start and every gateway route of the start is in the
\* routing table.
Cex_C19_ReinvocationRecovers ==
    (IsEnsure /\ Completed /\ CallInterface # "") =>
        /\ Range(orig.addrs[Interface]) \subseteq Range(net.addrs[Bridge])
        /\ \A k \in 1..Len(orig.routes) :
               IsGateway(orig.routes[k]) =>
                   \E i \in 1..Len(net.routes) :
                       /\ net.routes[i].dest = orig.routes[k].dest
                       /\ net.routes[i].gw = orig.routes[k].gw

\* C20: a command of ensure_bridge that fails is the last command of the call
\* and the call raises, unless it is the existence probe of the bridge or a
\* create or addm whose error text says 'File exists'.
Cex_C20_FailureAborts ==
    IsEnsure =>
        LET c == lastCall.cmds IN
        \A i \in 1..Len(c) :
            (/\ ~c[i].ok
             /\ ~(i = 1 /\ c[i].cmd = "ifconfig")
             /\ ~(c[i].cmd \in {"create", "addm"} /\ c[i].err = "File exists"))
                => (i = Len(c) /\ lastCall.raised \notin {"none", "killed"})

-----------------------------------------------------------------------------
(* C22, C25, C26, C28: devices *)

\* a command of the last call was made to fail, whatever the host's state
Injected == \E i \in 1..Len(lastCall.cmds) : lastCall.cmds[i].err = "error"

\* the last call ran (or logged) a command with this verb
HasCmd(verb) == \E i \in 1..Len(lastCall.cmds) : lastCall.cmds[i].cmd = verb

RemovalOps == {"remove_bridge", "remove_vlan", "delete_net_dev"}

\* the device a removal call is about
RemovedDev ==
    IF lastCall.op = "remove_vlan" THEN VlanName(lastCall.arg[1]) ELSE lastCall.arg[1]

\* the rule removal the role of the bridge asks for
RoleRemoval ==
    IF lastCall.arg[2] THEN "remove_gateway_rules" ELSE "remove_bridge_rules"

\* C22: with real commands that behave as the host's state says, a
\* remove_bridge, remove_vlan or delete_net_dev for a device that does not
\* exist runs no destroy command, raises nothing and leaves the host as it was;
\* for a device that exists it ends with the destroy of that device, which is
\* then gone, and remove_bridge has removed the rules of the bridge's role
\* before that destroy.
Thm_C22_RemovalMirrorsCreation ==
    (lastCall.op \in RemovalOps /\ ~CONF.fake_network /\ ~Injected) =>
        LET c == lastCall.cmds IN
        /\ RemovedDev \notin lastCall.pre_net.devices =>
               /\ ~HasCmd("destroy")
               /\ lastCall.raised = "none"
               /\ net = lastCall.pre_net
        /\ RemovedDev \in lastCall.pre_net.devices =>
               /\ lastCall.raised = "none"
               /\ c[Len(c)].cmd = "destroy" /\ c[Len(c)].dev = RemovedDev
               /\ RemovedDev \notin net.devices
               /\ lastCall.op = "remove_bridge" =>
                      \E i \in 1..(Len(c) - 1) :
                          /\ c[i].cmd = RoleRemoval
                          /\ \A j \in 1..i : c[j].cmd \notin {"down", "destroy"}

\* a remove_bridge found the bridge and destroyed it
Wit_C22_BridgeDestroyed ==
    /\ lastCall.op = "remove_bridge" /\ ~CONF.fake_network /\ ~Injected
    /\ Bridge \in lastCall.pre_net.devices
    /\ HasCmd("destroy")
    /\ Bridge \notin net.devices

(* C25 *)

IsRelease == lastCall.op = "release_dhcp"

ReleaseFailed ==
    \E i \in 1..Len(lastCall.cmds) :
        lastCall.cmds[i].cmd = "dhcp_release" /\ ~lastCall.cmds[i].ok

\* C25: with real commands, a release_dhcp whose device exists and whose
\* dhcp_release command fails raises NetworkDhcpReleaseFailed with the address
\* and the MAC of the call; a release_dhcp whose device does not exist runs no
\* command after the existence probe and raises nothing.
Thm_C25_ReleaseFailureTyped ==
    (IsRelease /\ ~CONF.fake_network) =>
        /\ (lastCall.arg[1] \in lastCall.pre_net.devices /\ ReleaseFailed) =>
               /\ lastCall.raised = "NetworkDhcpReleaseFailed"
               /\ lastCall.exc = [address |-> lastCall.arg[2],
                                  mac_address |-> lastCall.arg[3]]
        /\ lastCall.arg[1] \notin lastCall.pre_net.devices =>
               /\ Len(lastCall.cmds) = 1
               /\ lastCall.cmds[1].cmd = "ifconfig"
               /\ lastCall.raised = "none"

\* the release command of an existing device failed and the typed error
\* carries the second address
Wit_C25_TypedErrorRaised ==
    /\ IsRelease /\ ~CONF.fake_network
    /\ lastCall.arg[1] \in lastCall.pre_net.devices
    /\ ReleaseFailed
    /\ lastCall.raised = "NetworkDhcpReleaseFailed"
    /\ lastCall.exc.address = MaxAddrs

(* C26 *)

\* C26: with CONF.fake_network on, every command of a call is only logged.
Cex_C26_FakeRunsNothing ==
    (CONF.fake_network /\ lastCall.op # "none") =>
        \A i \in 1..Len(lastCall.cmds) :
            lastCall.cmds[i].cmd \in {"FAKE NET"} \cup NoteNames

(* C28 *)

IsEnsureVlan == lastCall.op = "ensure_vlan"

\* the interface of the VLAN of the call, and the MTU passed (0: none)
VlanIf == VlanName(lastCall.arg[1])
CallMtu == lastCall.arg[4]

SetupVerbs == {"create", "ether", "up"}

C28_Call ==
    IsEnsureVlan =>
        LET c == lastCall.cmds IN
        /\ (c[1].err # "error" /\ \E i \in 1..Len(c) : c[i].cmd \in SetupVerbs) =>
               VlanIf \notin lastCall.pre_net.devices
        /\ (~CONF.fake_network /\ ~Injected /\ VlanIf \notin lastCall.pre_net.devices) =>
               /\ \E i \in 1..Len(c) :
                      /\ c[i].cmd = "create" /\ c[i].dev = VlanIf
                      /\ \E j \in (i + 1)..Len(c) : c[j].cmd = "up" /\ c[j].dev = VlanIf
               /\ HasCmd("ether") <=> lastCall.arg[3] # ""
               /\ VlanIf \in net.devices
        /\ (lastCall.raised = "none" /\ CallMtu # 0) =>
               /\ c[Len(c)].cmd = "mtu"
               /\ c[Len(c)].dev = VlanIf
               /\ c[Len(c)].arg = CallMtu
        /\ CallMtu = 0 => ~HasCmd("mtu")
        /\ lastCall.raised = "none" => lastCall.ret = VlanIf

C28_SecondCall ==
    (/\ IsEnsureVlan /\ lastCall.raised = "none"
     /\ lastCall'.op = "ensure_vlan" /\ lastCall'.arg = lastCall.arg
     /\ \A i \in 1..Len(lastCall'.cmds) : lastCall'.cmds[i].err # "error")
        => \A i \in 1..Len(lastCall'.cmds) : lastCall'.cmds[i].cmd # "create"

\* C28: ensure_vlan runs the create, ether and up commands only when the
\* interface vlan<id> does not exist (its existence probe failing by itself
\* aside), and then runs create and up (and ether when a MAC is given); a call that returns has set the MTU as its last
\* command when one was given, sets none otherwise, and returns vlan<id>; the
\* call that follows a returned call with the same inputs runs no create.
Thm_C28_VlanCreatedOnce == [](C28_Call) /\ [][C28_SecondCall]_vars

\* a call on a host that already had the interface: nothing created, the MTU
\* set again, the name returned
Wit_C28_ExistingOnlyMtu ==
    /\ IsEnsureVlan /\ ~CONF.fake_network /\ lastCall.raised = "none"
    /\ VlanIf \in lastCall.pre_net.devices
    /\ ~HasCmd("create")
    /\ HasCmd("mtu")
    /\ lastCall.ret = VlanIf

-----------------------------------------------------------------------------
(* C21: plug *)

IsPlug == lastCall.op = "plug"

\* the positions of the commands of the last call with this verb
Positions(verb) == {i \in 1..Len(lastCall.cmds) : lastCall.cmds[i].cmd = verb}

\* the largest number of a set of positions, 0 when it is empty
Max(S) == IF S = {} THEN 0 ELSE CHOOSE x \in S : \A y \in S : y <= x

\* the positions where the last call took and left the bridge lock
BridgeLock(what) ==
    {i \in Positions(what) : lastCall.cmds[i].dev = "lock_bridge"}

\* what C21 says of a plug of the bridge driver, the only one that calls
\* ensure_bridge
C21_BridgeDriverPlug ==
    LET c == lastCall.cmds
        P == Positions("pfctl")
        A == Positions("firewall_manager.apply")
    IN  /\ \A p \in P : \E r \in BridgeLock("release") :
               /\ r < p
               /\ \A a \in BridgeLock("acquire") : a < r
        /\ \A s \in {"translation", "filtering"} :
               Range(lastCall.pre.rules[s]) \subseteq Range(rules[s])
        /\ Cardinality(P) <= 1
        /\ Len(lastCall.commits) = Cardinality(P)
        /\ P \subseteq {Len(c)}
        /\ \A p \in P : p - 1 \in A
        /\ \A a \in A : BridgeLock("release") # {}
        /\ IF lastCall.raised # "none" /\ c[Len(c)].cmd = "release"
           THEN A = {} /\ P = {}
           ELSE /\ Cardinality(A) = 1
                /\ \A a \in A : a = Max(BridgeLock("release")) + 1
                                       + (IF lastCall.arg[2] THEN 1 ELSE 0)
                /\ P # {} <=> (lastCall.pre.is_dirty /\ ~lastCall.pre.apply_deferred)

\* a plug of the Open vSwitch or Neutron driver calls neither ensure_bridge
\* nor apply(): no bridge lock, no commit, and no stored rule removed
C21_OtherDriverPlug ==
    /\ BridgeLock("acquire") = {}
    /\ Positions("firewall_manager.apply") = {}
    /\ Positions("pfctl") = {}
    /\ lastCall.commits = <<>>
    /\ \A s \in {"translation", "filtering"} :
           Range(lastCall.pre.rules[s]) \subseteq Range(rules[s])

\* C21: in a plug, no pfctl runs between taking and leaving the bridge lock
\* and ensure_bridge removes no stored rule; when ensure_bridge has returned,
\* plug calls firewall_manager.apply() once, after the lock is left and as its
\* last step, and that call runs at most one pfctl: one exactly when the store
\* is dirty and applies are not deferred. A plug whose ensure_vlan or
\* ensure_bridge raised runs no pfctl, and neither does a plug of a driver
\* that does not call ensure_bridge.
Thm_C21_CommitByPlugAfterLock ==
    IsPlug =>
        IF CONF.freebsdnet_interface_driver = BridgeDriver
        THEN C21_BridgeDriverPlug
        ELSE C21_OtherDriverPlug

\* a plug moved an address to the bridge and then sent the one commit, with a
\* rule stored earlier while applies were deferred
Wit_C21_OneCommitAfterMigration ==
    /\ IsPlug /\ lastCall.raised = "none"
    /\ Positions("inet add") # {}
    /\ Positions("pfctl") = {Len(lastCall.cmds)}
    /\ lastCall.pre.rules.translation # <<>>

-----------------------------------------------------------------------------
(* C23: bridge and VLAN operations *)

\* the threads inside an operation of one of these names
Inside(ops) == {t \in Threads : pc[t] \in DevBody /\ local[t].op \in ops}

\* the threads that called such an operation and have not entered it yet
Waiting(ops) == {t \in Threads : pc[t] = "dev_lock" /\ local[t].op \in ops}

\* C23: at most one thread is inside ensure_bridge or remove_bridge and at
\* most one inside ensure_vlan or remove_vlan; a thread waiting to enter an
\* operation of one kind can enter as soon as no thread is inside an operation
\* of that kind, whoever is inside an operation of the other kind.
Thm_C23_TwoLocks ==
    /\ Cardinality(Inside(BridgeOps)) <= 1
    /\ Cardinality(Inside(VlanOps)) <= 1
    /\ \A t \in Waiting(VlanOps) :
           Inside(VlanOps) = {} => CanAcquire(lock, LockOf(local[t].op))
    /\ \A t \in Waiting(BridgeOps) :
           Inside(BridgeOps) = {} => CanAcquire(lock, LockOf(local[t].op))

\* a VLAN operation has run from its first command to its last while the
\* bridge operation that was in progress when it started is still in progress,
\* and another thread is kept waiting for the bridge lock meanwhile
Wit_C23_VlanDuringBridge ==
    /\ \E t \in Inside(VlanOps) :
           /\ pc[t] = "dev_release"
           /\ local[t].raised = "none"
           /\ local[t].overlaps \in Inside(BridgeOps)
    /\ NumThreads > 2 => Waiting(BridgeOps) # {}

-----------------------------------------------------------------------------
(* C24: the admission rules after restart_dhcp *)

\* the rules of a store that are not admission rules of device dev
OtherRules(store, dev) ==
    [translation |-> store.translation,
     filtering |-> SelectSeq(store.filtering,
                             LAMBDA r : r \notin Range(AcceptRules(dev)))]

\* call c ran a pfctl command that succeeded
CommittedIn(c) ==
    \E i \in 1..Len(c.cmds) : c.cmds[i].cmd = "pfctl" /\ c.cmds[i].ok

\* call c had an admission rule of its device to add to the store
AdmissionRulesNew(c) ==
    ~(Range(AcceptRules(c.arg[1])) \subseteq Range(c.pre.rules.filtering))

\* call c was a restart_dhcp that added admission rules of its device to the
\* store and raised because the pfctl command that was to commit them failed
LeftUncommitted(c) ==
    /\ c.op = "restart_dhcp"
    /\ c.raised # "none"
    /\ AdmissionRulesNew(c)
    /\ c.cmds[Len(c.cmds)].cmd = "pfctl"
    /\ ~c.cmds[Len(c.cmds)].ok
    /\ ~CommittedIn(c)

\* a restart_dhcp that returns with applies not deferred leaves the admission
\* rules of its device stored and all other rules as they were, and it has
\* run a successful pfctl when it added an admission rule itself or when the
\* restart_dhcp before it, for the same device, added them and failed to
\* commit them
C24_Call ==
    (lastCall'.op = "restart_dhcp" /\ lastCall'.raised = "none"
        /\ ~lastCall'.pre.apply_deferred) =>
        /\ Range(AcceptRules(lastCall'.arg[1])) \subseteq Range(rules'.filtering)
        /\ OtherRules(rules', lastCall'.arg[1])
               = OtherRules(lastCall'.pre.rules, lastCall'.arg[1])
        /\ (\/ AdmissionRulesNew(lastCall')
            \/ (LeftUncommitted(lastCall) /\ lastCall.arg = lastCall'.arg))
               => CommittedIn(lastCall')

\* C24 as stated: once restart_dhcp has returned, by reload or by respawn, the
\* four admission rules of its device are in the filtering section, they have
\* been committed by a pfctl command before the return when applies are not
\* deferred, and the rules of every other device are unchanged.
Cex_C24_AdmissionRulesCommitted == [][C24_Call]_vars

-----------------------------------------------------------------------------
(* C29: the files restart_dhcp prepares *)

\* the names of the first n commands of the last call
FirstCmds(n) == [i \in 1..n |-> lastCall.cmds[i].cmd]

\* C29: every restart_dhcp, whatever state it finds the daemon in and however
\* it ends, first writes the options file of its device, makes it readable and
\* makes the host-binding file readable, in this order; every signal, spawn
\* and pfctl of the call comes after these three, and the pid the call probed
\* and signalled is the one the pid file held when it was called.
Thm_C29_FilesPreparedFirst ==
    IsRestart =>
        /\ Len(lastCall.cmds) >= 3
        /\ FirstCmds(3) = <<"write_opts", "chmod_opts", "chmod_conf">>
        /\ \A i \in 1..3 : lastCall.cmds[i].dev = CallDev /\ lastCall.cmds[i].ok
        /\ \A i \in 4..Len(lastCall.cmds) :
               lastCall.cmds[i].cmd \in {"kill -HUP", "dnsmasq", "pfctl"}
        /\ \A i \in 1..Len(lastCall.cmds) :
               lastCall.cmds[i].cmd = "kill -HUP" =>
                   lastCall.cmds[i].pid = lastCall.pre_pid_file

\* a call that found the daemon Running prepared the files, then sent the HUP
\* and returned
Wit_C29_PreparedThenReloaded ==
    /\ IsRestart /\ FoundRunning
    /\ Len(lastCall.cmds) = 4
    /\ FirstCmds(4) = <<"write_opts", "chmod_opts", "chmod_conf", "kill -HUP">>
    /\ lastCall.raised = "none"

-----------------------------------------------------------------------------
(* C27: hostnames in host-binding lines *)

IsHostDhcp == lastCall.op = "_host_dhcp"

\* the hostname given to the call
GivenHostname == lastCall.arg[1]

\* the hostname of the line: what stands between the first "," and the "."
\* before the domain
EmittedHostname ==
    LET line == lastCall.ret
        dot == CHOOSE i \in 1..Len(line) :
                   line[i] = "." /\ \A j \in 1..(i - 1) : line[j] # "."
    IN  SubSeq(line, 3, dot - 1)

\* C27: a hostname of more than 63 characters appears in the line as 63
\* characters, its first 2, then one character, then its last 60; a hostname
\* of at most 63 characters appears unchanged.
Thm_C27_HostnameTruncated ==
    IsHostDhcp =>
        LET h == GivenHostname
            e == EmittedHostname
        IN  /\ lastCall.ret[2] = ","
            /\ IF Len(h) > 63
               THEN /\ Len(e) = 63
                    /\ SubSeq(e, 1, 2) = SubSeq(h, 1, 2)
                    /\ SubSeq(e, 4, 63) = SubSeq(h, Len(h) - 59, Len(h))
               ELSE e = h

\* a hostname of 64 characters, the shortest that is cut, lost its third and
\* fourth characters and is emitted with 63
Wit_C27_Cut64 ==
    /\ IsHostDhcp
    /\ Len(GivenHostname) = 64
    /\ Len(EmittedHostname) = 63
    /\ EmittedHostname # SubSeq(GivenHostname, 1, 63)
    /\ EmittedHostname # SubSeq(GivenHostname, 2, 64)

-----------------------------------------------------------------------------
(* C30: initialize_gateway_device *)

IsGateway_init == lastCall.op = "initialize_gateway_device"

\* the DHCP-server address of the call's network (None: no network)
DhcpServer == lastCall.arg[2]

\* the addresses of the bridge before and after the call
AddrsBefore == lastCall.pre_net.addrs[Bridge]
AddrsAfter == net.addrs[Bridge]

\* the gateway routes through the bridge before the call, as (dest, gateway)
GatewayRoutesBefore ==
    {<<lastCall.pre_net.routes[i].dest, lastCall.pre_net.routes[i].gw>> :
        i \in {j \in 1..Len(lastCall.pre_net.routes) :
                  /\ lastCall.pre_net.routes[j].netif = Bridge
                  /\ IsGateway(lastCall.pre_net.routes[j])}}

\* what the commands of the call with this verb were about
ArgsOf(verb) == {lastCall.cmds[i].arg : i \in CmdsAt({verb})}

Reordering == {"route delete", "inet delete", "inet add", "route add"}

WasFirst == AddrsBefore # <<>> /\ AddrsBefore[1] = DhcpServer

\* C30: an initialize_gateway_device for a network that completed leaves the
\* DHCP-server address first on the device and every address the device had
\* still on it; in every call the route deletes precede the address deletes,
\* these precede the address adds, and these precede the route adds; a call
\* that completed and moved addresses deleted and re-added exactly the gateway
\* routes through the device; and a call that found the DHCP-server address
\* first ran no address or route delete or add.
Thm_C30_DhcpAddressFirst ==
    (IsGateway_init /\ DhcpServer # None) =>
        /\ Completed =>
               /\ AddrsAfter # <<>>
               /\ AddrsAfter[1] = DhcpServer
               /\ Range(AddrsBefore) \subseteq Range(AddrsAfter)
               /\ ~WasFirst =>
                      /\ ArgsOf("route delete") = GatewayRoutesBefore
                      /\ ArgsOf("route add") = GatewayRoutesBefore
                      /\ ArgsOf("inet delete") = Range(AddrsBefore)
        /\ \A i \in CmdsAt({"route delete"}), j \in CmdsAt({"inet delete"}) : i < j
        /\ \A i \in CmdsAt({"inet delete"}), j \in CmdsAt({"inet add"}) : i < j
        /\ \A i \in CmdsAt({"inet add"}), j \in CmdsAt({"route add"}) : i < j
        /\ \A i \in CmdsAt({"route delete"}), j \in CmdsAt({"route add"}) : i < j
        /\ WasFirst => CmdsAt(Reordering) = {}

\* the DHCP-server address was the last of the addresses of the device, a
\* gateway route went through the device, and the call put the address first,
\* kept the others and brought the route back
Wit_C30_MovedToFront ==
    /\ IsGateway_init /\ Completed /\ DhcpServer # None
    /\ Len(AddrsBefore) = MaxAddrs
    /\ AddrsBefore[MaxAddrs] = DhcpServer
    /\ AddrsAfter[1] = DhcpServer
    /\ Len(AddrsAfter) = MaxAddrs
    /\ GatewayRoutesBefore # {}
    /\ CmdsAt({"route delete"}) # {}
    /\ CmdsAt({"route add"}) # {}
    /\ \A r \in GatewayRoutesBefore :
           \E i \in 1..Len(net.routes) :
               /\ net.routes[i].dest = r[1] /\ net.routes[i].gw = r[2]
               /\ net.routes[i].netif = Bridge

-----------------------------------------------------------------------------
(* C34: add_rule and remove_rule on any text *)

\* the last call was add_rule or remove_rule
IsRuleCall == lastCall.op \in {"add_rule", "remove_rule"}

\* the rules the store held before the last call
StoredBefore ==
    Range(lastCall.pre.rules.translation) \cup Range(lastCall.pre.rules.filtering)

\* the last call had nothing to do: add_rule of a stored rule, remove_rule of
\* a rule that is not stored
NothingToDo ==
    \/ lastCall.op = "add_rule" /\ strip(lastCall.arg) \in StoredBefore
    \/ lastCall.op = "remove_rule" /\ strip(lastCall.arg) \notin StoredBefore

\* C34 as stated: add_rule and remove_rule return normally for every rule
\* text, the empty text and a text of one token included, and a call that has
\* nothing to do leaves both sequences and the dirty flag as they were.
Cex_C34_AnyTextReturns ==
    IsRuleCall =>
        /\ lastCall.raised = "none"
        /\ NothingToDo => (rules = lastCall.pre.rules
                           /\ is_dirty = lastCall.pre.is_dirty)

-----------------------------------------------------------------------------
(* C31: no second daemon next to a reloaded one *)

\* the kill -HUP of the call exited 0: the daemon has been told to reload
HupDelivered ==
    \E i \in 1..Len(lastCall.cmds) :
        /\ lastCall.cmds[i].cmd = "kill -HUP"
        /\ lastCall.cmds[i].pid = lastCall.pre_pid_file
        /\ lastCall.cmds[i].ok

\* C31 as stated: a restart_dhcp that finds the daemon Running and whose
\* kill -HUP succeeded runs no dnsmasq command in that call, whatever happens
\* to the admission rules and their commit afterwards.
Cex_C31_NoSpawnAfterReload ==
    (IsRestart /\ FoundRunning /\ HupDelivered) => ~Spawned

-----------------------------------------------------------------------------
(* C33: the upstream DNS servers *)

\* a restart_dhcp leaves CONF.dns_server as it found it, and when it reaches
\* the spawn step right after a restart_dhcp with the same device and network
\* that reached it too, it passes the same server arguments
C33_Call ==
    lastCall'.op = "restart_dhcp" =>
        /\ CONF'.dns_server = CONF.dns_server
        /\ (/\ lastCall.op = "restart_dhcp"
            /\ lastCall.arg = lastCall'.arg
            /\ \E i \in 1..Len(lastCall.cmds) : lastCall.cmds[i].cmd = "dnsmasq"
            /\ \E i \in 1..Len(lastCall'.cmds) : lastCall'.cmds[i].cmd = "dnsmasq")
               => lastCall'.ret = lastCall.ret

\* C33 as stated: restart_dhcp does not change the configured list of
\* upstream DNS servers, and two calls with the same device, network and
\* configuration that reach the spawn step pass the same --server arguments.
Cex_C33_ServerListUnchanged == [][C33_Call]_vars

-----------------------------------------------------------------------------
(* C32: the named locks *)

\* thread t holds lock m while it asks for lock n
HoldsAndAsks(t, m, n) ==
    /\ lock[m] = t
    /\ pc[t] = "called"
    /\ local[t] # <<>>
    /\ Head(local[t]) = Acquire(n)

\* the pairs (held, asked for) that occur in this state
Nestings ==
    {<<m, n>> \in AllLockNames \X AllLockNames : \E t \in Threads : HoldsAndAsks(t, m, n)}

\* every operation a thread has called returns
EveryCallReturns == \A t \in Threads : (pc[t] = "called") ~> (pc[t] = "idle")

\* thread t is inside a call and its next step can be taken now
CanStep(t) ==
    /\ pc[t] = "called"
    /\ \/ local[t] = <<>>
       \/ Head(local[t]).do = "release"
       \/ CanAcquire(lock, Head(local[t]).name)

\* no set of callers waits for one another: when some thread is inside a
\* call, some thread inside a call can take its next step
NoCircularWait ==
    (\E t \in Threads : pc[t] = "called") => (\E t \in Threads : CanStep(t))

\* C32 as stated: the only nesting is pfctl under dnsmasq_start, and with
\* commands that end every operation a thread has called returns.
Cex_C32_EveryCallReturns ==
    /\ [](Nestings \subseteq {<<"dnsmasq_start", "pfctl">>})
    /\ EveryCallReturns

\* C32 amended: the only lock asked for while another is held is pfctl under
\* dnsmasq_start (restart_dhcp), so no holder of pfctl, lock_bridge,
\* lock_vlan, lock_gateway or radvd_start asks for a lock, and no callers ever
\* wait for one another in a circle; and every operation a thread has called
\* returns provided the commands end and a lock that is freed again and again
\* is handed to each thread that keeps asking for it.
Thm_C32_NoDeadlock ==
    /\ [](Nestings \subseteq {<<"dnsmasq_start", "pfctl">>})
    /\ []NoCircularWait
    /\ FairHandOver => EveryCallReturns

\* a restart_dhcp holds dnsmasq_start and asks for pfctl, which the commit of
\* another thread holds
Wit_C32_DhcpWaitsForCommit ==
    \E t, u \in Threads :
        /\ t # u
        /\ lock["pfctl"] = u
        /\ HoldsAndAsks(t, "dnsmasq_start", "pfctl")

====
